---------------------------- MODULE Spec2Model ----------------------------
(***************************************************************************)
(* DP-1 prototype: the referential store of the feed server                *)
(* (prototype/server/storage.ts) and the concurrent directory hasher of    *)
(* the validator (prototype/validator/validator/sha256.go).                *)
(*                                                                         *)
(* Strings whose characters the code inspects (identifiers, slugs, path    *)
(* segments) are sequences of tokens, one token per character, so that     *)
(* the regular expressions of the code are computed character by           *)
(* character and concatenation is \o.  Strings the code only compares      *)
(* (scheme, hostname, port, titles) are TLA+ strings.                      *)
(***************************************************************************)
EXTENDS Integers, Sequences, FiniteSets, TLC

(***************************************************************************)
(* Bounds of the model.                                                    *)
(***************************************************************************)
\* number of calls the handlers start in one run
MaxCalls == 3
\* number of keys one store list() call returns when no limit is passed;
\* the KV default is 1000 keys, scaled down so that a group can exceed it
KVListLimit == 2

(***************************************************************************)
(* Identifiers and slugs used by the repository's tests.                   *)
(***************************************************************************)
playlistId1 ==
    <<"5","5","0","e","8","4","0","0","-","e","2","9","b","-","4","1","d","4","-","a","7","1","6","-","4","4","6","6","5","5","4","4","0","0","0","0">>
playlistId2 ==
    <<"5","5","0","e","8","4","0","0","-","e","2","9","b","-","4","1","d","4","-","a","7","1","6","-","4","4","6","6","5","5","4","4","0","0","0","2">>
playlistId3 ==
    <<"1","2","3","e","4","5","6","7","-","e","8","9","b","-","1","2","d","3","-","a","4","5","6","-","4","2","6","6","1","4","1","7","4","0","0","0">>
groupId1 ==
    <<"6","b","a","7","b","8","1","0","-","9","d","a","d","-","1","1","d","1","-","8","0","b","4","-","0","0","c","0","4","f","d","4","3","0","c","8">>
playlistSlug1 ==
    <<"t","e","s","t","-","p","l","a","y","l","i","s","t","-","1">>
playlistSlug2 ==
    <<"t","e","s","t","-","p","l","a","y","l","i","s","t","-","2">>
\* a slug of letters, digits and hyphens that has the shape of a UUID
uuidShapedSlug ==
    <<"6","b","a","7","b","8","1","0","-","9","d","a","d","-","1","1","d","1","-","8","0","b","4","-","0","0","c","0","4","f","d","4","3","0","c","9">>
groupSlug1 ==
    <<"t","e","s","t","-","e","x","h","i","b","i","t","i","o","n","-","1","2","3","4">>
missingSlug ==
    <<"n","o","n","-","e","x","i","s","t","e","n","t","-","s","l","u","g">>

\* null, for results that are objects; a missing string is the empty string,
\* which the code's truthiness tests (!id, !playlistIdentifier) treat alike
Null == [isNull |-> TRUE]
NoString == <<>>

(***************************************************************************)
(* Character classes and the regular expressions of storage.ts.            *)
(***************************************************************************)
Digits == {"0","1","2","3","4","5","6","7","8","9"}
HexLetters == {"a","b","c","d","e","f","A","B","C","D","E","F"}
Letters ==
    {"a","b","c","d","e","f","g","h","i","j","k","l","m","n","o","p","q","r","s","t","u","v","w","x","y","z",
     "A","B","C","D","E","F","G","H","I","J","K","L","M","N","O","P","Q","R","S","T","U","V","W","X","Y","Z"}

\* /^[0-9a-f]{8}-[0-9a-f]{4}-[0-9a-f]{4}-[0-9a-f]{4}-[0-9a-f]{12}$/i
IsUuid(s) ==
    /\ Len(s) = 36
    /\ \A i \in 1..36 :
          IF i \in {9, 14, 19, 24} THEN s[i] = "-"
          ELSE s[i] \in Digits \cup HexLetters

\* the character class [a-zA-Z0-9\-_]+ of extractPlaylistIdentifierFromUrl
IsIdentifierSegment(s) ==
    /\ Len(s) >= 1
    /\ \A i \in 1..Len(s) : s[i] \in Letters \cup Digits \cup {"-", "_"}

(***************************************************************************)
(* URLs.  A URL is kept as the fields `new URL(url)` exposes: scheme,      *)
(* hostname, port ("" when absent or the scheme's default) and the path    *)
(* as the sequence of its segments.                                        *)
(***************************************************************************)
SegApi == <<"a","p","i">>
SegV1 == <<"v","1">>
SegPlaylists == <<"p","l","a","y","l","i","s","t","s">>
SegInvalid == <<"i","n","v","a","l","i","d">>

Url(scheme, hostname, port, segs) ==
    [scheme |-> scheme, hostname |-> hostname, port |-> port, segs |-> segs]

\* https://api.feed.feralfile.com/api/v1/playlists/{playlistId1}
urlSelfById ==
    Url("https", "api.feed.feralfile.com", "", <<SegApi, SegV1, SegPlaylists, playlistId1>>)
\* http://localhost:8787/api/v1/playlists/test-playlist-2
urlSelfBySlug ==
    Url("http", "localhost", "8787", <<SegApi, SegV1, SegPlaylists, playlistSlug2>>)
\* https://api.feed.feralfile.com/api/v1/playlists/non-existent-slug
urlSelfMissing ==
    Url("https", "api.feed.feralfile.com", "", <<SegApi, SegV1, SegPlaylists, missingSlug>>)
\* https://api.feed.feralfile.com/invalid/playlists/{playlistId1}
urlSelfBadPath ==
    Url("https", "api.feed.feralfile.com", "", <<SegInvalid, SegPlaylists, playlistId1>>)
\* https://external-api.example.com/api/v1/playlists/{playlistId3}
urlExternal ==
    Url("https", "external-api.example.com", "", <<SegApi, SegV1, SegPlaylists, playlistId3>>)
\* http://localhost:3000/api/v1/playlists/{playlistId2}
urlOtherPort ==
    Url("http", "localhost", "3000", <<SegApi, SegV1, SegPlaylists, playlistId2>>)
\* https://example.com/playlists/{playlistId1}
urlExample ==
    Url("https", "example.com", "", <<SegPlaylists, playlistId1>>)
\* ftp://external-api.example.com/api/v1/playlists/{playlistId3}
urlFtp ==
    Url("ftp", "external-api.example.com", "", <<SegApi, SegV1, SegPlaylists, playlistId3>>)

\* env.SELF_HOSTED_DOMAINS, split at "," and trimmed; <<>> when it is unset.
\* An entry "host" is <<host, "">> and an entry "host:port" is <<host, port>>.
SELF_HOSTED_DOMAINS == << <<"api.feed.feralfile.com", "">>, <<"localhost", "8787">> >>

isSelfHostedUrl(url) ==
    IF Len(SELF_HOSTED_DOMAINS) = 0 THEN FALSE
    ELSE LET hostname == <<url.hostname, "">>
             hostWithPort == IF url.port # "" THEN <<url.hostname, url.port>> ELSE hostname
         IN  \E i \in 1..Len(SELF_HOSTED_DOMAINS) :
                \/ hostWithPort = SELF_HOSTED_DOMAINS[i]
                \/ hostname = SELF_HOSTED_DOMAINS[i]

\* pathname.match(/^\/api\/v1\/playlists\/([a-zA-Z0-9\-_]+)$/)
extractPlaylistIdentifierFromUrl(url) ==
    IF /\ Len(url.segs) = 4
       /\ url.segs[1] = SegApi
       /\ url.segs[2] = SegV1
       /\ url.segs[3] = SegPlaylists
       /\ IsIdentifierSegment(url.segs[4])
    THEN url.segs[4]
    ELSE NoString

\* playlistUrl.startsWith('http://') || playlistUrl.startsWith('https://')
IsHttpUrl(url) == url.scheme \in {"http", "https"}

(***************************************************************************)
(* The key-value stores.  A key is its prefix followed by the parts the    *)
(* code appends to it; a store maps the keys it holds to their values.     *)
(***************************************************************************)
PLAYLIST_ID_PREFIX == "playlist:id:"
PLAYLIST_SLUG_PREFIX == "playlist:slug:"
PLAYLIST_GROUP_ID_PREFIX == "playlist-group:id:"
PLAYLIST_GROUP_SLUG_PREFIX == "playlist-group:slug:"
PLAYLIST_BY_GROUP_PREFIX == "playlist:playlist-group-id:"

DP1_PLAYLISTS == "DP1_PLAYLISTS"
DP1_PLAYLIST_GROUPS == "DP1_PLAYLIST_GROUPS"
Namespaces == {DP1_PLAYLISTS, DP1_PLAYLIST_GROUPS}

PlaylistIdKey(id) == <<PLAYLIST_ID_PREFIX, id>>
PlaylistSlugKey(slug) == <<PLAYLIST_SLUG_PREFIX, slug>>
GroupIdKey(id) == <<PLAYLIST_GROUP_ID_PREFIX, id>>
GroupSlugKey(slug) == <<PLAYLIST_GROUP_SLUG_PREFIX, slug>>
\* `${PLAYLIST_BY_GROUP_PREFIX}${groupId}:${playlistId}`
MemberKey(groupId, playlistId) == <<PLAYLIST_BY_GROUP_PREFIX, groupId, playlistId>>

\* JSON.stringify / JSON.parse of a record of strings
JSONStringify(obj) == [json |-> obj]
JSONParse(data) == data.json

VARIABLES
    kv,       \* kv[ns]: the keys store ns holds, with their values
    pc,       \* pc[p]: where handler p is in its call
    call,     \* call[p]: the operation handler p runs and its argument
    res,      \* res[p][i]: the resolution of the i-th URL of the group p saves
    loc,      \* loc[p]: the locals of the call (existingGroup, existingIndexes)
    pend,     \* pend[p]: the store operations p has issued and awaits, in issue order
    fetches,  \* fetches[p][i]: calls of fetch() made for the i-th URL of the call
    issued,   \* issued[p]: store writes the call of p has issued so far
    calls,    \* calls started so far
    \* the validator's directory scan (sha256.go)
    hpc,         \* where ComputeDirectoryHashes / processFilesConcurrently is
    dirPath,     \* the directory under scan
    fileJobs,    \* the jobs the walk gathered
    numWorkers,
    loopIdx,     \* the index of the loop the main goroutine is in
    jobChan,     \* [buf, closed]
    resultChan,  \* [buf, closed]
    wg,          \* the counter of the WaitGroup
    workers,     \* workers[i]: [pc, result] of the i-th worker goroutine
    waiter,      \* the goroutine of lines 137-140
    results,     \* the results collected so far
    hret,        \* what ComputeDirectoryHashes returned
    expectedHashes,  \* the expected list VerifyDirectoryHashes was called with
    vret,            \* what VerifyDirectoryHashes returned
    \* a call of a function of the validator on its own
    fnArgs,      \* the arguments of the call
    fnOut,       \* what the call returned
    \* the capsule command of the validator (main.go)
    cpc,             \* where validateCapsule is
    capsulePlaylist, \* --playlist
    directoryPath,   \* --path
    hashesInput,     \* --hashes
    cret,            \* what validateCapsule returned
    \* a caller of the listing operations of the store (storage.ts)
    page,        \* the call of a listing operation last made, with its result
    listed,      \* the items of the pages from the first (no cursor) to the last made
    \* a request to the API of the server (routes/playlists.ts, playlistGroups.ts)
    req,         \* the request in progress, or the response to the last one
    posts,       \* posts[p]: the POST handler p serves, or its response
    returned,    \* returned[p]: how the last call of p that a fault ended came out
    \* the player of the client (components/Player.tsx)
    player       \* [component, playlist, index, elapsed, timers, saved, loads, last]

storeVars == <<kv, pc, call, res, loc, pend, fetches, issued, calls>>
hashVars == <<hpc, dirPath, fileJobs, numWorkers, loopIdx, jobChan, resultChan,
              wg, workers, waiter, results, hret>>
verifyVars == <<expectedHashes, vret>>
fnVars == <<fnArgs, fnOut>>
capsuleVars == <<cpc, capsulePlaylist, directoryPath, hashesInput, cret>>
listVars == <<page, listed>>
apiVars == <<req, posts, returned>>
playerVars == <<player>>
\* the callers of the store and the client
callerVars == <<listVars, apiVars, playerVars>>
vars == <<storeVars, callerVars, hashVars, verifyVars, fnVars, capsuleVars>>
\* what a handler of the store, and what the directory scan, leaves alone
nonStoreVars == <<callerVars, hashVars, verifyVars, fnVars, capsuleVars>>
nonHashVars == <<storeVars, callerVars, verifyVars, fnVars, capsuleVars>>

\* the request handlers that may run at the same time
Procs == {1, 2}

\* env.<ns>.get(key): the value, or absent
Has(ns, key) == key \in DOMAIN kv[ns]
Get(ns, key) == kv[ns][key]

KvPut(store, key, value) ==
    [k \in (DOMAIN store) \cup {key} |-> IF k = key THEN value ELSE store[k]]
KvDelete(store, key) ==
    [k \in (DOMAIN store) \ {key} |-> store[k]]

PutOp(ns, key, value) == [ns |-> ns, kind |-> "put", key |-> key, value |-> value]
DeleteOp(ns, key) == [ns |-> ns, kind |-> "delete", key |-> key, value |-> Null]

ApplyOp(store, op) ==
    [store EXCEPT ![op.ns] =
        IF op.kind = "put" THEN KvPut(store[op.ns], op.key, op.value)
        ELSE KvDelete(store[op.ns], op.key)]

(***************************************************************************)
(* Lexicographic order of strings, the order in which list() returns keys. *)
(***************************************************************************)
Ascii ==
    <<"-", "/", "0","1","2","3","4","5","6","7","8","9",
      "A","B","C","D","E","F","G","H","I","J","K","L","M","N","O","P","Q","R","S","T","U","V","W","X","Y","Z",
      "_",
      "a","b","c","d","e","f","g","h","i","j","k","l","m","n","o","p","q","r","s","t","u","v","w","x","y","z">>
CharOrd(c) == CHOOSE i \in 1..Len(Ascii) : Ascii[i] = c

RECURSIVE StrLess(_, _)
StrLess(s, t) ==
    IF Len(t) = 0 THEN FALSE
    ELSE IF Len(s) = 0 THEN TRUE
    ELSE IF s[1] # t[1] THEN CharOrd(s[1]) < CharOrd(t[1])
    ELSE StrLess(Tail(s), Tail(t))

\* the keys of `keys` in ascending order of their last part
RECURSIVE SortedByLast(_)
SortedByLast(keys) ==
    IF keys = {} THEN <<>>
    ELSE LET least == CHOOSE k \in keys :
                        \A o \in keys \ {k} : StrLess(k[Len(k)], o[Len(o)])
         IN  <<least>> \o SortedByLast(keys \ {least})

FirstN(seq, n) == SubSeq(seq, 1, IF Len(seq) < n THEN Len(seq) ELSE n)

\* env.DP1_PLAYLISTS.list({ prefix: `${PLAYLIST_BY_GROUP_PREFIX}${groupId}:` })
\* with no limit: the first KVListLimit keys under the prefix
MemberKeys(store, groupId) ==
    {k \in DOMAIN store[DP1_PLAYLISTS] :
        Len(k) = 3 /\ k[1] = PLAYLIST_BY_GROUP_PREFIX /\ k[2] = groupId}
ListMemberKeys(store, groupId) ==
    FirstN(SortedByLast(MemberKeys(store, groupId)), KVListLimit)

(***************************************************************************)
(* getPlaylistByIdOrSlug / getPlaylistGroupByIdOrSlug.  A lookup is one or *)
(* two store reads, each awaited.  LookupFirst is the part up to the read  *)
(* of the ID record: it routes on the UUID pattern and, for a slug, reads  *)
(* the slug pointer.  LookupRecord is the read of the ID record.  `reads`  *)
(* lists the keys read, in order; `value` is Null when nothing is found.   *)
(***************************************************************************)
\* the lookup without the test of the UUID pattern: every identifier is
\* taken for a slug
LookupFirstAlwaysSlug(store, ns, idPrefix, slugPrefix, identifier) ==
    IF <<slugPrefix, identifier>> \notin DOMAIN store[ns]
    THEN [done |-> TRUE, reads |-> << <<slugPrefix, identifier>> >>, value |-> Null]
    ELSE [done |-> FALSE, reads |-> << <<slugPrefix, identifier>> >>,
          id |-> store[ns][<<slugPrefix, identifier>>]]
LookupFirst(store, ns, idPrefix, slugPrefix, identifier) ==
    IF IsUuid(identifier)
    THEN [done |-> FALSE, reads |-> <<>>, id |-> identifier]
    ELSE IF <<slugPrefix, identifier>> \notin DOMAIN store[ns]
         THEN [done |-> TRUE, reads |-> << <<slugPrefix, identifier>> >>, value |-> Null]
         ELSE [done |-> FALSE, reads |-> << <<slugPrefix, identifier>> >>,
               id |-> store[ns][<<slugPrefix, identifier>>]]

LookupRecord(store, ns, idPrefix, id, reads) ==
    IF <<idPrefix, id>> \notin DOMAIN store[ns]
    THEN [reads |-> Append(reads, <<idPrefix, id>>), value |-> Null]
    ELSE [reads |-> Append(reads, <<idPrefix, id>>),
          value |-> JSONParse(store[ns][<<idPrefix, id>>])]

\* a whole lookup against one state of the store
Lookup(store, ns, idPrefix, slugPrefix, identifier) ==
    LET first == LookupFirst(store, ns, idPrefix, slugPrefix, identifier)
    IN  IF first.done THEN [reads |-> first.reads, value |-> first.value]
        ELSE LookupRecord(store, ns, idPrefix, first.id, first.reads)

getPlaylistByIdOrSlug(store, identifier) ==
    Lookup(store, DP1_PLAYLISTS, PLAYLIST_ID_PREFIX, PLAYLIST_SLUG_PREFIX, identifier)
getPlaylistGroupByIdOrSlug(store, identifier) ==
    Lookup(store, DP1_PLAYLIST_GROUPS, PLAYLIST_GROUP_ID_PREFIX,
           PLAYLIST_GROUP_SLUG_PREFIX, identifier)

(***************************************************************************)
(* Inputs: the playlists and groups the handlers are called with, and the  *)
(* answers the network may give to a fetch.                                *)
(***************************************************************************)
playlistSlug3 ==
    <<"t","e","s","t","-","p","l","a","y","l","i","s","t","-","3">>

Playlist(id, slug, title) == [id |-> id, slug |-> slug, title |-> title]
PlaylistGroup(id, slug, playlists) ==
    [id |-> id, slug |-> slug, title |-> "Test Exhibition", playlists |-> playlists]

testPlaylist1 == Playlist(playlistId1, playlistSlug1, "Test Playlist")
testPlaylist2 == Playlist(playlistId2, playlistSlug2, "Test Playlist")
uuidSlugPlaylist == Playlist(playlistId2, uuidShapedSlug, "Test Playlist")

\* an ID that is no UUID, as the tests of the listing use
nonUuidPlaylist == Playlist(<<"p","l","a","y","l","i","s","t","-","0","0","0">>, playlistSlug3, "Test Playlist")

PlaylistInputs == {testPlaylist1, testPlaylist2, uuidSlugPlaylist, nonUuidPlaylist}

\* the slug of the playlist an external server publishes under an ID
ExternalSlug(id) ==
    IF id = playlistId1 THEN playlistSlug1
    ELSE IF id = playlistId2 THEN playlistSlug2
    ELSE playlistSlug3

\* what fetch(url), response.json() and PlaylistSchema.safeParse can come to:
\* fetch throws, a non-2xx status, a body that fails validation, or a valid
\* playlist (the one whose ID ends the URL, as the tests' fetch answers)
FetchFailures == {"throws", "not_ok", "invalid_body"}
FetchBodies(url) ==
    LET id == url.segs[Len(url.segs)]
    IN  {Playlist(id, ExternalSlug(id), "Test External Playlist")}
FetchOutcomes(url) ==
    {[ok |-> FALSE, why |-> f] : f \in FetchFailures}
    \cup {[ok |-> TRUE, body |-> b] : b \in FetchBodies(url)}

UrlLists ==
    { <<>>,
      <<urlExternal>>,
      <<urlOtherPort>>,
      <<urlSelfById, urlExternal>>,
      <<urlSelfBySlug, urlFtp>>,
      <<urlSelfMissing>>,
      <<urlSelfBadPath, urlOtherPort>> }
\* a list longer than one page of the store's list()
LongUrlLists == { <<urlExample, urlOtherPort, urlExternal>> }

GroupInputs == {PlaylistGroup(groupId1, groupSlug1, l) : l \in UrlLists}
LongGroupInputs == {PlaylistGroup(groupId1, groupSlug1, l) : l \in LongUrlLists}

(***************************************************************************)
(* Handlers.  pc[p] is "idle" between calls, "resolve" while the URLs of a  *)
(* group are resolved, "existing" and "list" while the group save reads    *)
(* the stored group and its membership index, and "commit" while the call  *)
(* awaits Promise.all(operations).  A call that returns leaves its handler *)
(* idle, with its locals gone.                                             *)
(***************************************************************************)
(***************************************************************************)
(* The state of the directory scan before ComputeDirectoryHashes is        *)
(* called.                                                                 *)
(***************************************************************************)
\* the cap on the number of workers (8 in the code), scaled down
WorkerCap == 2

NoChan == [buf |-> <<>>, closed |-> FALSE]
NoWorker == [pc |-> "none"]
NoReturn == [returned |-> FALSE]

HashInit ==
    /\ hpc = "idle"
    /\ dirPath = [stat |-> "none", entries |-> <<>>]
    /\ fileJobs = <<>>
    /\ numWorkers = 0
    /\ loopIdx = 0
    /\ jobChan = NoChan
    /\ resultChan = NoChan
    /\ wg = 0
    /\ workers = [i \in 1..WorkerCap |-> NoWorker]
    /\ waiter = "none"
    /\ results = <<>>
    /\ hret = NoReturn

NoCall == [op |-> "none"]
NoLoc == [stage |-> "none"]

NoResult == [returned |-> FALSE]
NoArgs == [fn |-> "none"]

VerifyInit ==
    /\ expectedHashes = <<>>
    /\ vret = NoResult

FnInit ==
    /\ fnArgs = NoArgs
    /\ fnOut = NoResult

\* no --path, and a playlist argument that is the empty string
NoPath == [stat |-> "none", entries |-> <<>>]
NoPlaylist == [text |-> "empty"]

CapsuleInit ==
    /\ cpc = "idle"
    /\ capsulePlaylist = NoPlaylist
    /\ directoryPath = NoPath
    /\ hashesInput = NoString
    /\ cret = NoResult

NoPage == [op |-> "none"]

ListInit ==
    /\ page = NoPage
    /\ listed = <<>>

\* no request has been made
NoRequest == [stage |-> "none"]
ApiInit == req = NoRequest /\ posts = [p \in Procs |-> [stage |-> "none", n |-> 0]]
           /\ returned = [p \in Procs |-> "none"]

\* the player is not mounted
NoPlayer == [mounted |-> FALSE]
PlayerInit == player = NoPlayer

StoreInit ==
    /\ kv = [ns \in Namespaces |-> <<>>]
    /\ pc = [p \in Procs |-> "idle"]
    /\ call = [p \in Procs |-> NoCall]
    /\ res = [p \in Procs |-> <<>>]
    /\ loc = [p \in Procs |-> NoLoc]
    /\ pend = [p \in Procs |-> <<>>]
    /\ fetches = [p \in Procs |-> <<>>]
    /\ issued = [p \in Procs |-> 0]
    /\ calls = 0

Init == StoreInit /\ ListInit /\ ApiInit /\ PlayerInit /\ HashInit /\ VerifyInit /\ FnInit /\ CapsuleInit

\* a new call is taken by the first idle handler (the handlers are alike)
CanStart(p) ==
    /\ pc[p] = "idle"
    /\ \A q \in Procs : q < p => pc[q] # "idle"
    /\ calls < MaxCalls

\* the call of p returns (true or false): its locals are gone
Return(p) ==
    /\ pc' = [pc EXCEPT ![p] = "idle"]
    /\ call' = [call EXCEPT ![p] = NoCall]
    /\ res' = [res EXCEPT ![p] = <<>>]
    /\ loc' = [loc EXCEPT ![p] = NoLoc]
    /\ pend' = [pend EXCEPT ![p] = <<>>]
    /\ fetches' = [fetches EXCEPT ![p] = <<>>]
    /\ issued' = [issued EXCEPT ![p] = 0]

\* a call that issues `ops` at once and awaits them all
StartCommit(p, op, arg, ops) ==
    /\ CanStart(p)
    /\ pc' = [pc EXCEPT ![p] = "commit"]
    /\ call' = [call EXCEPT ![p] = [op |-> op, arg |-> arg]]
    /\ res' = [res EXCEPT ![p] = <<>>]
    /\ loc' = [loc EXCEPT ![p] = NoLoc]
    /\ pend' = [pend EXCEPT ![p] = ops]
    /\ fetches' = [fetches EXCEPT ![p] = <<>>]
    /\ issued' = [issued EXCEPT ![p] = Len(ops)]
    /\ calls' = calls + 1
    /\ UNCHANGED <<nonStoreVars, kv>>

\* the save without the slug pointer of line 138
savePlaylistOpsNoSlug(playlist) ==
    << PutOp(DP1_PLAYLISTS, PlaylistIdKey(playlist.id), JSONStringify(playlist)) >>
savePlaylistOps(playlist) ==
    << PutOp(DP1_PLAYLISTS, PlaylistIdKey(playlist.id), JSONStringify(playlist)),
       PutOp(DP1_PLAYLISTS, PlaylistSlugKey(playlist.slug), playlist.id) >>

savePlaylist(p, playlist) ==
    StartCommit(p, "savePlaylist", playlist, savePlaylistOps(playlist))

deletePlaylistOps(playlist) ==
    << DeleteOp(DP1_PLAYLISTS, PlaylistIdKey(playlist.id)),
       DeleteOp(DP1_PLAYLISTS, PlaylistSlugKey(playlist.slug)) >>

deletePlaylist(p, playlist) ==
    StartCommit(p, "deletePlaylist", playlist, deletePlaylistOps(playlist))

\* playlistUrl.match(/playlists([^]+)(?:|$)/): the first "playlists" of the
\* URL and, as group 1, everything that follows it up to the end of the URL
\* (at least one character); NoString when there is no match
RECURSIVE JoinSegs(_)
JoinSegs(segs) ==
    IF Len(segs) = 0 THEN <<>>
    ELSE <<"/">> \o Head(segs) \o JoinSegs(Tail(segs))

PlaylistIdMatch(url) ==
    LET at == {i \in 1..Len(url.segs) : url.segs[i] = SegPlaylists}
    IN  IF at = {} THEN NoString
        ELSE LET first == CHOOSE i \in at : \A j \in at : i <= j
             IN  JoinSegs(SubSeq(url.segs, first + 1, Len(url.segs)))

RECURSIVE GroupIndexDeletes(_, _)
GroupIndexDeletes(groupId, urls) ==
    IF Len(urls) = 0 THEN <<>>
    ELSE LET playlistId == PlaylistIdMatch(Head(urls))
         IN  (IF Len(playlistId) > 0
              THEN << DeleteOp(DP1_PLAYLISTS, MemberKey(groupId, playlistId)) >>
              ELSE <<>>)
             \o GroupIndexDeletes(groupId, Tail(urls))

deletePlaylistGroupOps(group) ==
    << DeleteOp(DP1_PLAYLIST_GROUPS, GroupIdKey(group.id)),
       DeleteOp(DP1_PLAYLIST_GROUPS, GroupSlugKey(group.slug)) >>
    \o GroupIndexDeletes(group.id, group.playlists)

deletePlaylistGroup(p, group) ==
    StartCommit(p, "deletePlaylistGroup", group, deletePlaylistGroupOps(group))

(***************************************************************************)
(* savePlaylistGroup.                                                      *)
(***************************************************************************)
ResNull == [st |-> "null"]
ResOk(playlist) == [st |-> "ok", id |-> playlist.id, playlist |-> playlist]
IsFinal(r) == r.st \in {"null", "ok"}

\* the resolution without the self-hosted branch of lines 77-96: every http
\* URL is fetched
ResolveStartNoSelfHosted(url) ==
    IF ~IsHttpUrl(url) THEN ResNull ELSE [st |-> "fetch"]
\* the part of the map callback that runs before its first await
ResolveStart(url) ==
    IF ~IsHttpUrl(url) THEN ResNull
    ELSE IF isSelfHostedUrl(url)
         THEN LET playlistIdentifier == extractPlaylistIdentifierFromUrl(url)
              IN  IF Len(playlistIdentifier) = 0 THEN ResNull
                  ELSE [st |-> "lookup", identifier |-> playlistIdentifier]
         ELSE [st |-> "fetch"]

savePlaylistGroupStart(p, group) ==
    /\ CanStart(p)
    /\ loc' = [loc EXCEPT ![p] = NoLoc]
    /\ issued' = [issued EXCEPT ![p] = 0]
    /\ pend' = [pend EXCEPT ![p] = <<>>]
    /\ IF Len(group.playlists) = 0
       THEN /\ pc' = [pc EXCEPT ![p] = "idle"]
            /\ call' = [call EXCEPT ![p] = NoCall]
            /\ res' = [res EXCEPT ![p] = <<>>]
            /\ fetches' = [fetches EXCEPT ![p] = <<>>]
       ELSE /\ pc' = [pc EXCEPT ![p] = "resolve"]
            /\ call' = [call EXCEPT ![p] = [op |-> "savePlaylistGroup", arg |-> group]]
            /\ res' = [res EXCEPT ![p] =
                  [i \in 1..Len(group.playlists) |-> ResolveStart(group.playlists[i])]]
            /\ fetches' = [fetches EXCEPT ![p] =
                  [i \in 1..Len(group.playlists) |->
                      IF ResolveStart(group.playlists[i]).st = "fetch" THEN 1 ELSE 0]]
    /\ calls' = calls + 1
    /\ UNCHANGED <<nonStoreVars, kv>>

\* the answer to the fetch of the i-th URL arrives
FetchDone(p, i) ==
    /\ pc[p] = "resolve"
    /\ i \in 1..Len(res[p])
    /\ res[p][i].st = "fetch"
    /\ \E outcome \in FetchOutcomes(call[p].arg.playlists[i]) :
          res' = [res EXCEPT ![p][i] =
                    IF outcome.ok THEN ResOk(outcome.body) ELSE ResNull]
    /\ UNCHANGED <<nonStoreVars, kv, pc, call, loc, pend, fetches, issued, calls>>

\* one awaited store read of getPlaylistByIdOrSlug for the i-th URL
LocalLookupStep(p, i) ==
    /\ pc[p] = "resolve"
    /\ i \in 1..Len(res[p])
    /\ res[p][i].st \in {"lookup", "record"}
    /\ LET r == res[p][i]
           first == LookupFirst(kv, DP1_PLAYLISTS, PLAYLIST_ID_PREFIX,
                                PLAYLIST_SLUG_PREFIX, r.identifier)
           found == IF r.st = "record"
                    THEN LookupRecord(kv, DP1_PLAYLISTS, PLAYLIST_ID_PREFIX, r.id, <<>>)
                    ELSE LookupRecord(kv, DP1_PLAYLISTS, PLAYLIST_ID_PREFIX, first.id, <<>>)
           readsRecord == r.st = "record" \/ (~first.done /\ first.reads = <<>>)
       IN  res' = [res EXCEPT ![p][i] =
                    IF readsRecord
                    THEN IF found.value = Null THEN ResNull ELSE ResOk(found.value)
                    ELSE IF first.done THEN ResNull
                    ELSE [st |-> "record", identifier |-> r.identifier, id |-> first.id]]
    /\ UNCHANGED <<nonStoreVars, kv, pc, call, loc, pend, fetches, issued, calls>>

groupOps(group) ==
    << PutOp(DP1_PLAYLIST_GROUPS, GroupIdKey(group.id), JSONStringify(group)),
       PutOp(DP1_PLAYLIST_GROUPS, GroupSlugKey(group.slug), group.id) >>

RECURSIVE deleteIndexOps(_)
deleteIndexOps(keys) ==
    IF Len(keys) = 0 THEN <<>>
    ELSE <<DeleteOp(DP1_PLAYLISTS, Head(keys))>> \o deleteIndexOps(Tail(keys))

RECURSIVE validPlaylistOps(_, _)
validPlaylistOps(groupId, valid) ==
    IF Len(valid) = 0 THEN <<>>
    ELSE LET v == Head(valid)
         IN  << PutOp(DP1_PLAYLISTS, PlaylistIdKey(v.id), JSONStringify(v.playlist)),
                PutOp(DP1_PLAYLISTS, PlaylistSlugKey(v.playlist.slug), v.id),
                PutOp(DP1_PLAYLISTS, MemberKey(groupId, v.id), v.id) >>
             \o validPlaylistOps(groupId, Tail(valid))

AllResolved(p) == \A i \in 1..Len(res[p]) : IsFinal(res[p][i])
SomeInvalid(p) == \E i \in 1..Len(res[p]) : res[p][i].st = "null"

\* the rejection without the test of line 327: only a group of which no URL
\* resolved is rejected
validatedRejectIfNoneValid(p) == \A i \in 1..Len(res[p]) : res[p][i].st = "null"
\* no valid playlist (line 321) or fewer valid ones than URLs (line 327)
validatedReject(p) == SomeInvalid(p)
\* Promise.all(playlistValidationPromises) has settled: reject the group, or
\* issue the group's two puts and start reading the stored group
validated(p) ==
    /\ pc[p] = "resolve"
    /\ AllResolved(p)
    /\ IF validatedReject(p)
       THEN /\ Return(p)
            /\ UNCHANGED <<nonStoreVars, kv, calls>>
       ELSE /\ pc' = [pc EXCEPT ![p] = "existing"]
            /\ pend' = [pend EXCEPT ![p] = groupOps(call[p].arg)]
            /\ issued' = [issued EXCEPT ![p] = 2]
            /\ loc' = [loc EXCEPT ![p] = [stage |-> "first"]]
            /\ UNCHANGED <<nonStoreVars, kv, call, res, fetches, calls>>

\* operations.push(...) for the old index entries and for the valid playlists
pushIndexOps(p, existingIndexes) ==
    /\ pend' = [pend EXCEPT ![p] =
                  @ \o deleteIndexOps(existingIndexes)
                    \o validPlaylistOps(call[p].arg.id, res[p])]
    /\ issued' = [issued EXCEPT ![p] = @ + Len(existingIndexes) + 3 * Len(res[p])]
    /\ pc' = [pc EXCEPT ![p] = "commit"]

\* one awaited store read of getPlaylistGroupByIdOrSlug(playlistGroup.id)
existingGroupStep(p) ==
    /\ pc[p] = "existing"
    /\ LET first == LookupFirst(kv, DP1_PLAYLIST_GROUPS, PLAYLIST_GROUP_ID_PREFIX,
                                PLAYLIST_GROUP_SLUG_PREFIX, call[p].arg.id)
           found == IF loc[p].stage = "record"
                    THEN LookupRecord(kv, DP1_PLAYLIST_GROUPS, PLAYLIST_GROUP_ID_PREFIX,
                                      loc[p].id, <<>>)
                    ELSE LookupRecord(kv, DP1_PLAYLIST_GROUPS, PLAYLIST_GROUP_ID_PREFIX,
                                      first.id, <<>>)
           readsRecord == loc[p].stage = "record" \/ (~first.done /\ first.reads = <<>>)
       IN  IF readsRecord \/ first.done
           THEN IF readsRecord /\ found.value # Null
                THEN /\ pc' = [pc EXCEPT ![p] = "list"]
                     /\ loc' = [loc EXCEPT ![p] = [stage |-> "found"]]
                     /\ UNCHANGED <<pend, issued>>
                ELSE /\ loc' = [loc EXCEPT ![p] = [stage |-> "absent"]]
                     /\ pushIndexOps(p, <<>>)
           ELSE /\ loc' = [loc EXCEPT ![p] = [stage |-> "record", id |-> first.id]]
                /\ UNCHANGED <<pc, pend, issued>>
    /\ UNCHANGED <<nonStoreVars, kv, call, res, fetches, calls>>

\* await env.DP1_PLAYLISTS.list({ prefix: groupIndexPrefix }) and the pushes
listExistingIndexes(p) ==
    /\ pc[p] = "list"
    /\ LET existingIndexes == ListMemberKeys(kv, call[p].arg.id)
       IN  /\ loc' = [loc EXCEPT ![p] = [stage |-> "found", existingIndexes |-> existingIndexes]]
           /\ pushIndexOps(p, existingIndexes)
    /\ UNCHANGED <<nonStoreVars, kv, call, res, fetches, calls>>

(***************************************************************************)
(* The store applies an operation a handler awaits; Promise.all settles.   *)
(***************************************************************************)
RemoveAt(seq, i) == SubSeq(seq, 1, i - 1) \o SubSeq(seq, i + 1, Len(seq))

Apply(p, i) ==
    /\ i \in 1..Len(pend[p])
    /\ kv' = ApplyOp(kv, pend[p][i])
    /\ pend' = [pend EXCEPT ![p] = RemoveAt(@, i)]
    /\ UNCHANGED <<nonStoreVars, pc, call, res, loc, fetches, issued, calls>>

\* the store applies the operations of a call in any order
ApplyAny(p) == \E i \in 1..Len(pend[p]) : Apply(p, i)
\* the store applies the operations of a call in the order of issue
ApplyInOrder(p) == Apply(p, 1)

\* Promise.all(operations) has settled: the call returns true
ReturnTrue(p) ==
    /\ pc[p] = "commit"
    /\ pend[p] = <<>>
    /\ Return(p)
    /\ UNCHANGED <<nonStoreVars, kv, calls>>

(***************************************************************************)
(* Specifications.                                                         *)
(***************************************************************************)
StoredPlaylists(store) ==
    {JSONParse(store[DP1_PLAYLISTS][k]) :
        k \in {x \in DOMAIN store[DP1_PLAYLISTS] : x[1] = PLAYLIST_ID_PREFIX}}
StoredGroups(store) ==
    {JSONParse(store[DP1_PLAYLIST_GROUPS][k]) :
        k \in {x \in DOMAIN store[DP1_PLAYLIST_GROUPS] : x[1] = PLAYLIST_GROUP_ID_PREFIX}}

\* the steps of a call in progress, but for the store's
Progress(p) ==
    \/ \E i \in 1..Len(res[p]) : FetchDone(p, i)
    \/ \E i \in 1..Len(res[p]) : LocalLookupStep(p, i)
    \/ validated(p)
    \/ existingGroupStep(p)
    \/ listExistingIndexes(p)
    \/ ReturnTrue(p)

Saves(p, playlists, groups) ==
    \/ \E playlist \in playlists : savePlaylist(p, playlist)
    \/ \E group \in groups : savePlaylistGroupStart(p, group)

Deletes(p) ==
    \/ \E playlist \in StoredPlaylists(kv) : deletePlaylist(p, playlist)
    \/ \E group \in StoredGroups(kv) : deletePlaylistGroup(p, group)

\* handlers run concurrently; the store applies the operations a call awaits
\* in the order the call issued them
Next ==
    \E p \in Procs :
        \/ Saves(p, PlaylistInputs, GroupInputs)
        \/ Deletes(p)
        \/ Progress(p)
        \/ ApplyInOrder(p)

Spec == Init /\ [][Next]_vars

\* calls do not overlap; the store applies the operations a call awaits in
\* any order
NextSeq ==
    \E p \in {1} :
        \/ Saves(p, PlaylistInputs, GroupInputs)
        \/ Deletes(p)
        \/ Progress(p)
        \/ ApplyAny(p)

SpecSeq == Init /\ [][NextSeq]_vars

\* saves only, which do not overlap; the store applies the operations a call
\* awaits in the order the call issued them; a group may have more playlists
\* than one page of list() holds
NextSaves ==
    \E p \in {1} :
        \/ Saves(p, PlaylistInputs, GroupInputs \cup LongGroupInputs)
        \/ Progress(p)
        \/ ApplyInOrder(p)

SpecSaves == Init /\ [][NextSaves]_vars

\* saves that overlap, of one playlist under two slugs and of groups that
\* refer to that playlist by a self-hosted and by an external URL; the store
\* applies the operations a call awaits in the order the call issued them
UpdatedPlaylistInputs == {testPlaylist2, uuidSlugPlaylist}
ReferringGroupInputs ==
    {PlaylistGroup(groupId1, groupSlug1, l) : l \in {<<urlSelfBySlug>>, <<urlOtherPort>>}}
NextRace ==
    \E p \in Procs :
        \/ Saves(p, UpdatedPlaylistInputs, ReferringGroupInputs)
        \/ Progress(p)
        \/ ApplyInOrder(p)

SpecRace == Init /\ [][NextRace]_vars

\* faults in calls that do not overlap: a put or delete the call awaits is
\* rejected, or the process stops; the store applies the operations a call
\* awaits in any order, and those a fault finds unapplied never are
\* a catch block that takes the record of the group back
catchSaveErrorUndoingRecord(store, group) ==
    [store EXCEPT ![DP1_PLAYLIST_GROUPS] = KvDelete(@, GroupIdKey(group.id))]
\* } catch (error) { console.error(...); return false; }: the store is left
\* as the applied operations made it
catchSaveError(store, group) == store

\* an operation Promise.all awaits is rejected: the call returns false
storeWriteFails(p) ==
    /\ pc[p] = "commit"
    /\ pend[p] # <<>>
    /\ kv' = catchSaveError(kv, call[p].arg)
    /\ returned' = [returned EXCEPT ![p] = "false"]
    /\ Return(p)
    /\ UNCHANGED <<calls, listVars, req, posts, playerVars, hashVars, verifyVars, fnVars, capsuleVars>>

\* the process stops in the middle of a call, which returns nothing
processStops(p) ==
    /\ pc[p] # "idle"
    /\ returned' = [returned EXCEPT ![p] = "stopped"]
    /\ Return(p)
    /\ UNCHANGED <<kv, calls, listVars, req, posts, playerVars, hashVars, verifyVars, fnVars, capsuleVars>>

FaultGroupInputs ==
    {PlaylistGroup(groupId1, groupSlug1, l) : l \in {<<urlExternal>>, <<urlSelfById, urlExternal>>}}
NextFault ==
    \E p \in {1} :
        \/ Saves(p, {testPlaylist1}, FaultGroupInputs)
        \/ Progress(p)
        \/ ApplyAny(p)
        \/ storeWriteFails(p)
        \/ processStops(p)

SpecFault == Init /\ [][NextFault]_vars

(***************************************************************************)
(* The listing operations.  list() of the store returns the keys under a   *)
(* prefix in ascending order, from the first key after the cursor, at most *)
(* `limit` of them, and a cursor (the last key returned) when keys remain. *)
(* A listing operation is one list() and one get() per key returned; it is *)
(* called while no other call is in progress.                              *)
(***************************************************************************)
\* the largest page of listAllPlaylists and listPlaylistsByGroupId (100 in
\* the program, scaled like KVListLimit, the 1000 of the store)
PageCap == 1

NoCursor == NoString

\* the place of the first key after the cursor, less one
StartIndex(allKeys, cursor) ==
    IF cursor = NoCursor THEN 0
    ELSE IF \E i \in 1..Len(allKeys) : StrLess(cursor[Len(cursor)], allKeys[i][Len(allKeys[i])])
         THEN (CHOOSE i \in 1..Len(allKeys) :
                  /\ StrLess(cursor[Len(cursor)], allKeys[i][Len(allKeys[i])])
                  /\ \A j \in 1..(i - 1) : ~StrLess(cursor[Len(cursor)], allKeys[j][Len(allKeys[j])])) - 1
         ELSE Len(allKeys)

\* env.<ns>.list({ prefix, limit, cursor }) for the keys `under` the prefix;
\* a limit of 0 stands for none
KVList(under, limit, cursor) ==
    LET allKeys == SortedByLast(under)
        startIndex == StartIndex(allKeys, cursor)
        lim == IF limit = 0 THEN KVListLimit ELSE limit
        keys == SubSeq(allKeys, startIndex + 1,
                       IF startIndex + lim < Len(allKeys) THEN startIndex + lim ELSE Len(allKeys))
        hasMore == startIndex + lim < Len(allKeys)
    IN  [keys |-> keys,
         list_complete |-> ~hasMore,
         cursor |-> IF hasMore THEN keys[Len(keys)] ELSE NoCursor]

KeysUnder(ns, prefix) == {k \in DOMAIN kv[ns] : Len(k) = 2 /\ k[1] = prefix}

\* the records read for the keys of a page, those not found left out
RECURSIVE FetchAll(_, _, _)
FetchAll(ns, keys, prefix) ==
    IF keys = <<>> THEN <<>>
    ELSE LET key == <<prefix, Head(keys)[Len(Head(keys))]>>
         IN  IF Has(ns, key)
             THEN <<JSONParse(Get(ns, key))>> \o FetchAll(ns, Tail(keys), prefix)
             ELSE FetchAll(ns, Tail(keys), prefix)

PaginatedResult(op, arg, options, limit, response, items) ==
    [op |-> op, arg |-> arg, options |-> options,
     requested |-> limit,
     items |-> items,
     cursor |-> IF response.list_complete THEN NoCursor ELSE response.cursor,
     hasMore |-> ~response.list_complete]

\* the caller keeps the items of the pages of one walk through the list
Listing(result) ==
    /\ \A p \in Procs : pc[p] = "idle"
    /\ page' = result
    /\ listed' = IF result.options.cursor = NoCursor THEN result.items
                  ELSE listed \o result.items
    /\ UNCHANGED <<storeVars, apiVars, playerVars, hashVars, verifyVars, fnVars, capsuleVars>>

\* the limit of a page: the caller's, or the default, cut to the cap
LimitUncapped(limit, default) == IF limit = 0 THEN default ELSE limit
LimitCapped(limit, default) ==
    IF LimitUncapped(limit, default) > PageCap THEN PageCap ELSE LimitUncapped(limit, default)

listAllPlaylists(options) ==
    LET limit == LimitCapped(options.limit, PageCap)
        response == KVList(KeysUnder(DP1_PLAYLISTS, PLAYLIST_ID_PREFIX), limit, options.cursor)
    IN  Listing(PaginatedResult("listAllPlaylists", NoString, options, limit, response,
                                FetchAll(DP1_PLAYLISTS, response.keys, PLAYLIST_ID_PREFIX)))

listPlaylistsByGroupId(playlistGroupId, options) ==
    LET limit == LimitCapped(options.limit, PageCap)
        response == KVList(MemberKeys(kv, playlistGroupId), limit, options.cursor)
    IN  Listing(PaginatedResult("listPlaylistsByGroupId", playlistGroupId, options, limit, response,
                                FetchAll(DP1_PLAYLISTS, response.keys, PLAYLIST_ID_PREFIX)))

listAllPlaylistGroups(options) ==
    LET limit == LimitUncapped(options.limit, KVListLimit)
        response == KVList(KeysUnder(DP1_PLAYLIST_GROUPS, PLAYLIST_GROUP_ID_PREFIX), limit, options.cursor)
    IN  Listing(PaginatedResult("listAllPlaylistGroups", NoString, options, limit, response,
                                FetchAll(DP1_PLAYLIST_GROUPS, response.keys, PLAYLIST_GROUP_ID_PREFIX)))

\* the options of a caller: any limit (0: none) and no cursor, or the limit
\* and the cursor of the page before of the same listing
ListOptions(op, arg) ==
    {[limit |-> l, cursor |-> NoCursor] : l \in 0..(KVListLimit + 1)}
        \cup (IF page.op = op /\ page.arg = arg /\ page.cursor # NoCursor
              THEN {[limit |-> page.options.limit, cursor |-> page.cursor]}
              ELSE {})

\* the groups of the listing test, each of one external playlist
group000 == <<"g","r","o","u","p","-","0","0","0">>
ListGroupInputs ==
    {PlaylistGroup([group000 EXCEPT ![9] = d],
                   <<"g","r","o","u","p","-","s","l","u","g","-", d>>,
                   <<urlExternal>>) : d \in {"0", "1", "2"}}

\* saves and deletes that do not overlap, then listings and no further write
NextList ==
    \/ /\ page = NoPage
       /\ \E p \in {1} :
            \/ Saves(p, PlaylistInputs, GroupInputs \cup ListGroupInputs)
            \/ Deletes(p)
    \/ \E p \in {1} : Progress(p) \/ ApplyInOrder(p)
    \/ \E options \in ListOptions("listAllPlaylists", NoString) : listAllPlaylists(options)
    \/ \E g \in {groupId1} :
            \E options \in ListOptions("listPlaylistsByGroupId", g) : listPlaylistsByGroupId(g, options)
    \/ \E options \in ListOptions("listAllPlaylistGroups", NoString) : listAllPlaylistGroups(options)

SpecList == Init /\ [][NextList]_vars

(***************************************************************************)
(* validator/sha256.go: ComputeDirectoryHashes walks a directory into a     *)
(* list of jobs; processFilesConcurrently hands them to a pool of workers  *)
(* over a buffered channel and collects one result per job from a second   *)
(* one.  An entry of the directory is a regular file that can be read      *)
(* ("file"), one that cannot be opened ("unreadable"), a subdirectory      *)
(* ("dir"), a subdirectory that cannot be listed ("readDirError": Walk     *)
(* reports the error with the directory's info) or an entry whose lstat    *)
(* fails ("lstatError": Walk reports the error with a nil info).  The path *)
(* of an entry is its place in the lexical order Walk visits entries in.   *)
(***************************************************************************)
MaxEntries == 3
MaxCPU == 3

EntryKinds == {"file", "unreadable", "dir", "readDirError", "lstatError"}

RECURSIVE SeqsUpTo(_, _)
SeqsUpTo(S, n) ==
    IF n = 0 THEN { <<>> }
    ELSE LET shorter == SeqsUpTo(S, n - 1)
         IN  shorter \cup {Append(q, x) : q \in {r \in shorter : Len(r) = n - 1}, x \in S}

Directories ==
    {[stat |-> "missing", entries |-> <<>>], [stat |-> "file", entries |-> <<>>]}
        \cup {[stat |-> "dir", entries |-> e] : e \in SeqsUpTo(EntryKinds, MaxEntries)}

FileJob(path, info) == [Path |-> path, RelPath |-> path, Info |-> info]

\* the callback of filepath.Walk, for the entry at `path`
WalkFn(jobs, dir, path) ==
    LET kind == dir.entries[path]
    IN  IF kind = "lstatError" THEN Append(jobs, FileJob(path, "nil"))
        ELSE IF kind = "readDirError" THEN Append(jobs, FileJob(path, "dir"))
        ELSE IF kind = "dir" THEN jobs
        ELSE Append(jobs, FileJob(path, "file"))

RECURSIVE WalkFrom(_, _, _)
WalkFrom(jobs, dir, path) ==
    IF path > Len(dir.entries) THEN jobs
    ELSE WalkFrom(WalkFn(jobs, dir, path), dir, path + 1)

Walk(dir) == WalkFrom(<<>>, dir, 1)

\* the first number, whatever the second
MinFirst(a, b) == a
Min(a, b) == IF a < b THEN a ELSE b

\* the length of a hash in hexadecimal digits (64 in the program, scaled)
HashLen == 2
HexLower == <<"a","b","c","d","e","f","0","1","2","3","4","5","6","7","8","9">>
HexUpper == <<"A","B","C","D","E","F","0","1","2","3","4","5","6","7","8","9">>

\* fmt.Sprintf("%x", hash.Sum(nil)): lower-case hexadecimal; the contents of
\* the files differ, and so do their hashes
Digest(path) == [i \in 1..HashLen |-> IF i = 1 THEN HexLower[path] ELSE "0"]
\* the same hash as a user may write it
UpperDigest(path) == [i \in 1..HashLen |-> IF i = 1 THEN HexUpper[path] ELSE "0"]

\* strings.ToLower
ToLowerChar(c) ==
    IF \E i \in 1..26 : Ascii[12 + i] = c
    THEN Ascii[39 + (CHOOSE i \in 1..26 : Ascii[12 + i] = c)]
    ELSE c
ToLower(str) == [i \in 1..Len(str) |-> ToLowerChar(str[i])]

\* the strings of a set from the last to the first
RECURSIVE SortStringsDescending(_)
SortStringsDescending(strs) ==
    IF strs = {} THEN <<>>
    ELSE LET m == CHOOSE x \in strs : \A y \in strs : ~StrLess(x, y)
         IN  <<m>> \o SortStringsDescending(strs \ {m})
\* sort.Strings of the strings gathered from the keys of a map
RECURSIVE SortStrings(_)
SortStrings(strs) ==
    IF strs = {} THEN <<>>
    ELSE LET m == CHOOSE x \in strs : \A y \in strs : ~StrLess(y, x)
         IN  <<m>> \o SortStrings(strs \ {m})

\* the keys of the map built from a list: its lower-cased entries
LowerKeys(list) == {ToLower(list[i]) : i \in 1..Len(list)}

\* success := len(missing) == 0 && len(extra) == 0
VerificationSuccess(missing, extra) == Len(missing) = 0 /\ Len(extra) = 0

compareHashLists(expected, actual) ==
    LET expectedMap == LowerKeys(expected)
        actualMap == LowerKeys(actual)
    IN  [matched |-> SortStrings({h \in expectedMap : h \in actualMap}),
         missing |-> SortStrings({h \in expectedMap : h \notin actualMap}),
         extra |-> SortStrings({h \in actualMap : h \notin expectedMap})]

\* os.Open and io.Copy of the entry at `path`
computeFileHash(dir, path) ==
    IF dir.entries[path] = "file"
    THEN [hash |-> Digest(path), err |-> ""]
    ELSE [hash |-> NoString, err |-> "open or read failed"]

HashResult(path, sha, err) ==
    [Path |-> path, SHA256 |-> sha, Size |-> 1, IsDir |-> FALSE, Error |-> err]

\* the results left in the order they were collected in
SortByPathNone(rs) == rs
\* sort.Slice(results, by Path); the paths differ
RECURSIVE SortByPath(_)
SortByPath(rs) ==
    IF rs = <<>> THEN <<>>
    ELSE LET i == CHOOSE k \in 1..Len(rs) : \A j \in 1..Len(rs) : rs[k].Path <= rs[j].Path
         IN  <<rs[i]>> \o SortByPath(RemoveAt(rs, i))

ReturnedValue(rs, err) == [returned |-> TRUE, results |-> rs, err |-> err]

\* lines 47-99 up to the start of the pool, lines 102-118
ComputeDirectoryHashes(dir, numCPU) ==
    /\ hpc = "idle"
    /\ dirPath' = dir
    /\ IF dir.stat = "missing"
       THEN /\ hret' = ReturnedValue(<<>>, "failed to access directory")
            /\ hpc' = "returned"
            /\ UNCHANGED <<fileJobs, numWorkers>>
       ELSE IF dir.stat # "dir"
       THEN /\ hret' = ReturnedValue(<<>>, "path is not a directory")
            /\ hpc' = "returned"
            /\ UNCHANGED <<fileJobs, numWorkers>>
       ELSE /\ fileJobs' = Walk(dir)
            /\ IF Len(fileJobs') = 0
               THEN /\ hret' = ReturnedValue(<<>>, "")
                    /\ hpc' = "returned"
                    /\ UNCHANGED numWorkers
               ELSE /\ numWorkers' = Min(Min(numCPU, WorkerCap), Len(fileJobs'))
                    /\ hpc' = "start"
                    /\ UNCHANGED hret
    /\ UNCHANGED <<loopIdx, jobChan, resultChan, wg, workers, waiter, results>>
    /\ UNCHANGED nonHashVars

\* lines 122-128: wg.Add(1); go func
startWorker ==
    /\ hpc = "start"
    /\ wg' = wg + 1
    /\ workers' = [workers EXCEPT ![loopIdx + 1] = [pc |-> "recv"]]
    /\ IF loopIdx + 1 = numWorkers
       THEN hpc' = "send" /\ loopIdx' = 0
       ELSE hpc' = "start" /\ loopIdx' = loopIdx + 1
    /\ UNCHANGED <<dirPath, fileJobs, numWorkers, jobChan, resultChan, waiter, results, hret>>
    /\ UNCHANGED nonHashVars

\* lines 131-133: jobChan <- job; the buffer holds len(fileJobs)
sendJob ==
    /\ hpc = "send"
    /\ Len(jobChan.buf) < Len(fileJobs)
    /\ jobChan' = [jobChan EXCEPT !.buf = Append(@, fileJobs[loopIdx + 1])]
    /\ IF loopIdx + 1 = Len(fileJobs)
       THEN hpc' = "close" /\ loopIdx' = 0
       ELSE hpc' = "send" /\ loopIdx' = loopIdx + 1
    /\ UNCHANGED <<dirPath, fileJobs, numWorkers, resultChan, wg, workers, waiter, results, hret>>
    /\ UNCHANGED nonHashVars

\* lines 134-140: close(jobChan); go func() { wg.Wait(); close(resultChan) }
closeJobChan ==
    /\ hpc = "close"
    /\ jobChan' = [jobChan EXCEPT !.closed = TRUE]
    /\ waiter' = "waiting"
    /\ hpc' = "collect"
    /\ UNCHANGED <<dirPath, fileJobs, numWorkers, loopIdx, resultChan, wg, workers, results, hret>>
    /\ UNCHANGED nonHashVars

\* lines 138-139
waitAndClose ==
    /\ hpc # "crashed"
    /\ waiter = "waiting"
    /\ wg = 0
    /\ resultChan' = [resultChan EXCEPT !.closed = TRUE]
    /\ waiter' = "done"
    /\ UNCHANGED <<hpc, dirPath, fileJobs, numWorkers, loopIdx, jobChan, wg, workers, results, hret>>
    /\ UNCHANGED nonHashVars

\* lines 143-148, and lines 93-98 of the caller
collect ==
    /\ hpc = "collect"
    /\ IF resultChan.buf # <<>>
       THEN /\ results' = Append(results, Head(resultChan.buf))
            /\ resultChan' = [resultChan EXCEPT !.buf = Tail(@)]
            /\ UNCHANGED <<hpc, hret>>
       ELSE /\ resultChan.closed
            /\ hret' = ReturnedValue(SortByPath(results), "")
            /\ hpc' = "returned"
            /\ UNCHANGED <<results, resultChan>>
    /\ UNCHANGED <<dirPath, fileJobs, numWorkers, loopIdx, jobChan, wg, workers, waiter>>
    /\ UNCHANGED nonHashVars

\* lines 153-171: a worker takes a job and builds its result.  job.Info.Size()
\* of line 156 is called before line 161 asks whether job.Info is nil: on a nil
\* Info it panics, and a panic of a goroutine ends the process
workerReceive(i) ==
    /\ hpc # "crashed"
    /\ workers[i].pc = "recv"
    /\ IF jobChan.buf # <<>>
       THEN LET job == Head(jobChan.buf)
                hashed == computeFileHash(dirPath, job.Path)
            IN  /\ jobChan' = [jobChan EXCEPT !.buf = Tail(@)]
                /\ IF job.Info = "nil"
                   THEN hpc' = "crashed" /\ UNCHANGED workers
                   ELSE /\ workers' = [workers EXCEPT ![i] =
                              [pc |-> "send",
                               result |-> HashResult(job.RelPath, hashed.hash, hashed.err)]]
                        /\ UNCHANGED hpc
                /\ UNCHANGED wg
       ELSE /\ jobChan.closed
            /\ workers' = [workers EXCEPT ![i] = [pc |-> "exited"]]
            /\ wg' = wg - 1
            /\ UNCHANGED <<hpc, jobChan>>
    /\ UNCHANGED <<dirPath, fileJobs, numWorkers, loopIdx, resultChan, waiter, results, hret>>
    /\ UNCHANGED nonHashVars

\* line 173: resultChan <- result
workerSend(i) ==
    /\ hpc # "crashed"
    /\ workers[i].pc = "send"
    /\ Len(resultChan.buf) < Len(fileJobs)
    /\ resultChan' = [resultChan EXCEPT !.buf = Append(@, workers[i].result)]
    /\ workers' = [workers EXCEPT ![i] = [pc |-> "recv"]]
    /\ UNCHANGED <<hpc, dirPath, fileJobs, numWorkers, loopIdx, jobChan, wg, waiter, results, hret>>
    /\ UNCHANGED nonHashVars

worker(i) == workerReceive(i) \/ workerSend(i)

\* lines 207-213: the hashes of the results without error
computedHashesNone(rs) == <<>>
RECURSIVE computedHashes(_)
computedHashes(rs) ==
    IF rs = <<>> THEN <<>>
    ELSE IF Head(rs).Error = "" /\ Head(rs).SHA256 # NoString
         THEN <<Head(rs).SHA256>> \o computedHashes(Tail(rs))
         ELSE computedHashes(Tail(rs))

VerificationResult(success, total, matched, missing, extra, rs, msg) ==
    [returned |-> TRUE, Success |-> success, TotalFiles |-> total,
     MatchedHashes |-> matched, MissingHashes |-> missing, ExtraHashes |-> extra,
     Results |-> rs, ErrorMessage |-> msg, err |-> msg]

\* the expected lists a caller passes: for every set of files, of the
\* directory or not, their hashes from the last to the first, the first
\* file's in upper case
ExpectedLists ==
    {SortStringsDescending({IF path = 1 THEN UpperDigest(path) ELSE Digest(path) : path \in S}) :
        S \in SUBSET (1..(MaxEntries + 1))}

\* lines 197-228, from the return of ComputeDirectoryHashes on (the expected
\* list is not read before)
VerifyDirectoryHashes(expected) ==
    /\ hpc = "returned"
    /\ ~vret.returned
    /\ expectedHashes' = expected
    /\ IF hret.err # ""
       THEN vret' = VerificationResult(FALSE, 0, 0, <<>>, <<>>, <<>>, hret.err)
       ELSE LET cmp == compareHashLists(expected, computedHashes(hret.results))
            IN  vret' = VerificationResult(VerificationSuccess(cmp.missing, cmp.extra),
                                           Len(hret.results), Len(cmp.matched),
                                           cmp.missing, cmp.extra, hret.results, "")
    /\ UNCHANGED <<storeVars, callerVars, hashVars, fnVars, capsuleVars>>

HashNext ==
    \/ hpc = "idle" /\ \E dir \in Directories, numCPU \in 1..MaxCPU : ComputeDirectoryHashes(dir, numCPU)
    \/ startWorker
    \/ sendJob
    \/ closeJobChan
    \/ waitAndClose
    \/ collect
    \/ \E i \in 1..WorkerCap : worker(i)

HashSpec == Init /\ [][HashNext]_vars

\* VerifyDirectoryHashes on a machine with one CPU, where the scan has one
\* worker (with more, the list the scan returns is the same)
VerifyNext ==
    \/ hpc = "idle" /\ \E dir \in Directories : ComputeDirectoryHashes(dir, 1)
    \/ startWorker
    \/ sendJob
    \/ closeJobChan
    \/ waitAndClose
    \/ collect
    \/ \E i \in 1..WorkerCap : worker(i)
    \/ \E expected \in ExpectedLists : VerifyDirectoryHashes(expected)

VerifySpec == Init /\ [][VerifyNext]_vars

(***************************************************************************)
(* compareHashLists on its own: the two lists are drawn from the lists of  *)
(* at most MaxHashes hashes, in either case of the letters.                *)
(***************************************************************************)
MaxHashes == 3
HashTokens == {Digest(1), UpperDigest(1), Digest(2), Digest(3)}
HashLists == SeqsUpTo(HashTokens, MaxHashes)

CompareInit ==
    /\ StoreInit /\ ListInit /\ ApiInit /\ PlayerInit /\ HashInit /\ VerifyInit /\ CapsuleInit
    /\ fnArgs \in {[fn |-> "compareHashLists", expected |-> e, actual |-> a] :
                        e \in HashLists, a \in HashLists}
    /\ fnOut = NoResult

compareHashListsCall ==
    /\ fnArgs.fn = "compareHashLists"
    /\ fnOut = NoResult
    /\ fnOut' = [returned |-> TRUE,
                 lists |-> compareHashLists(fnArgs.expected, fnArgs.actual)]
    /\ UNCHANGED <<storeVars, callerVars, hashVars, verifyVars, capsuleVars, fnArgs>>

CompareNext == compareHashListsCall

CompareSpec == CompareInit /\ [][CompareNext]_vars

(***************************************************************************)
(* The capsule command: validateCapsule (main.go) with the parsing of the  *)
(* --hashes value (sha256.go).                                             *)
(***************************************************************************)
\* strings.TrimPrefix
TrimPrefix(str, prefix) ==
    IF Len(str) >= Len(prefix) /\ SubSeq(str, 1, Len(prefix)) = prefix
    THEN SubSeq(str, Len(prefix) + 1, Len(str))
    ELSE str

\* ValidateHashFormat(hash) == nil; hex.DecodeString takes the digits and the
\* letters a-f in either case
ValidateHashFormat(hash) ==
    LET h == TrimPrefix(TrimPrefix(hash, <<"0", "x">>), <<"s","h","a","2","5","6",":">>)
    IN  /\ Len(h) = HashLen
        /\ \A i \in 1..Len(h) : h[i] \in Digits \cup HexLetters

Delimiters == {",", ":", ";", "\n", "\t", " "}
\* strings.FieldsFunc: the maximal runs of characters that are no delimiters
RECURSIVE FieldsFunc(_, _, _)
FieldsFunc(str, field, parts) ==
    IF str = <<>> THEN (IF field = <<>> THEN parts ELSE Append(parts, field))
    ELSE IF Head(str) \in Delimiters
         THEN FieldsFunc(Tail(str), <<>>, IF field = <<>> THEN parts ELSE Append(parts, field))
         ELSE FieldsFunc(Tail(str), Append(field, Head(str)), parts)

\* strings.Trim and strings.TrimSpace: the characters of the cutset removed
\* from both ends
RECURSIVE Trim(_, _)
Trim(str, cutset) ==
    IF str = <<>> THEN str
    ELSE IF Head(str) \in cutset THEN Trim(Tail(str), cutset)
    ELSE IF str[Len(str)] \in cutset THEN Trim(SubSeq(str, 1, Len(str) - 1), cutset)
    ELSE str
TrimSpace(str) == Trim(str, {" ", "\t", "\n", "\r"})

RECURSIVE ValidHashesOf(_)
ValidHashesOf(parts) ==
    IF parts = <<>> THEN <<>>
    ELSE LET part == Trim(TrimSpace(Head(parts)), {"[", "]", "(", ")", "{", "}"})
         IN  IF ValidateHashFormat(part)
             THEN <<ToLower(part)>> \o ValidHashesOf(Tail(parts))
             ELSE ValidHashesOf(Tail(parts))

\* every part taken for a hash, of whatever format
RECURSIVE AllPartsOf(_)
AllPartsOf(parts) ==
    IF parts = <<>> THEN <<>>
    ELSE <<ToLower(Head(parts))>> \o AllPartsOf(Tail(parts))
ExtractHashesFromStringUnvalidated(input) == AllPartsOf(FieldsFunc(input, <<>>, <<>>))
ExtractHashesFromString(input) == ValidHashesOf(FieldsFunc(input, <<>>, <<>>))

\* the items of a parsed playlist, by their repro blocks
RECURSIVE ExtractAssetHashes(_)
ExtractAssetHashes(items) ==
    IF items = <<>> THEN <<>>
    ELSE IF Head(items).Repro # Null /\ Len(Head(items).Repro.AssetsSHA256) > 0
         THEN Head(items).Repro.AssetsSHA256 \o ExtractAssetHashes(Tail(items))
         ELSE ExtractAssetHashes(Tail(items))

\* the exported comparison of the validator package, called in hash-list mode
CompareHashLists(expected, actual) == compareHashLists(expected, actual)

CapsuleReturn(err) == [returned |-> TRUE, err |-> err]

\* the check of the flags that lets a call with --hashes alone pass
CapsuleExpectedUnlessHashes(pl, path, hashes) ==
    LET fromPlaylist == IF pl.text = "valid" THEN ExtractAssetHashes(pl.Items) ELSE <<>>
        override == path # NoPath /\ hashes # NoString
        providedHashes == ExtractHashesFromString(hashes)
        expected == IF override THEN providedHashes ELSE fromPlaylist
    IN  IF pl = NoPlaylist /\ path = NoPath /\ hashes = NoString
        THEN [err |-> "either --playlist or --path must be provided for capsule validation", expected |-> <<>>]
        ELSE IF pl.text = "invalid"
        THEN [err |-> "failed to parse capsule playlist", expected |-> <<>>]
        ELSE IF override /\ Len(providedHashes) = 0
        THEN [err |-> "no valid hashes found in --hashes input", expected |-> fromPlaylist]
        ELSE IF Len(expected) = 0
        THEN [err |-> IF pl # NoPlaylist /\ path = NoPath /\ hashes = NoString
                      THEN "playlist does not contain repro.assetsSHA256 hashes for verification"
                      ELSE IF path # NoPath /\ hashes = NoString
                      THEN "--hashes must be provided when using --path without a playlist containing repro.assetsSHA256"
                      ELSE "no hashes available for verification",
              expected |-> expected]
        ELSE [err |-> "", expected |-> expected]

\* main.go 162-219: the error the command ends with before any comparison
\* ("" if none), and the expected hashes it goes on with
CapsuleExpected(pl, path, hashes) ==
    LET fromPlaylist == IF pl.text = "valid" THEN ExtractAssetHashes(pl.Items) ELSE <<>>
        override == path # NoPath /\ hashes # NoString
        providedHashes == ExtractHashesFromString(hashes)
        expected == IF override THEN providedHashes ELSE fromPlaylist
    IN  IF pl = NoPlaylist /\ path = NoPath
        THEN [err |-> "either --playlist or --path must be provided for capsule validation", expected |-> <<>>]
        ELSE IF pl.text = "invalid"
        THEN [err |-> "failed to parse capsule playlist", expected |-> <<>>]
        ELSE IF override /\ Len(providedHashes) = 0
        THEN [err |-> "no valid hashes found in --hashes input", expected |-> fromPlaylist]
        ELSE IF Len(expected) = 0
        THEN [err |-> IF pl # NoPlaylist /\ path = NoPath /\ hashes = NoString
                      THEN "playlist does not contain repro.assetsSHA256 hashes for verification"
                      ELSE IF path # NoPath /\ hashes = NoString
                      THEN "--hashes must be provided when using --path without a playlist containing repro.assetsSHA256"
                      ELSE "no hashes available for verification",
              expected |-> expected]
        ELSE [err |-> "", expected |-> expected]

\* main.go 158-263 and 300-304: up to the call of VerifyDirectoryHashes in
\* directory mode, to the end otherwise
validateCapsule(pl, path, hashes) ==
    /\ cpc = "idle"
    /\ capsulePlaylist' = pl
    /\ directoryPath' = path
    /\ hashesInput' = hashes
    /\ LET head == CapsuleExpected(pl, path, hashes)
           providedHashes == ExtractHashesFromString(hashes)
           cmp == CompareHashLists(head.expected, providedHashes)
       IN  /\ expectedHashes' = head.expected
           /\ IF head.err # ""
              THEN cpc' = "done" /\ cret' = CapsuleReturn(head.err) /\ UNCHANGED vret
              ELSE IF path # NoPath
              THEN cpc' = "verify" /\ UNCHANGED <<cret, vret>>
              ELSE IF hashes # NoString
              THEN IF Len(providedHashes) = 0
                   THEN /\ cpc' = "done"
                        /\ cret' = CapsuleReturn("no valid hashes found in --hashes input")
                        /\ UNCHANGED vret
                   ELSE /\ cpc' = "done"
                        /\ vret' = VerificationResult(VerificationSuccess(cmp.missing, cmp.extra),
                                                      Len(providedHashes), Len(cmp.matched),
                                                      cmp.missing, cmp.extra, <<>>, "")
                        /\ cret' = CapsuleReturn(IF vret'.Success THEN ""
                                                  ELSE "capsule verification failed")
              ELSE cpc' = "done" /\ cret' = CapsuleReturn("") /\ UNCHANGED vret
    /\ UNCHANGED <<storeVars, callerVars, hashVars, fnVars>>

\* main.go 227: the call of VerifyDirectoryHashes, which starts with the scan
verifyDirectory ==
    /\ cpc = "verify"
    /\ \/ ComputeDirectoryHashes(directoryPath, 1)
       \/ VerifyDirectoryHashes(expectedHashes)

\* main.go 228-230 and 300-304
validateCapsuleReturn ==
    /\ cpc = "verify"
    /\ vret.returned
    /\ cpc' = "done"
    /\ cret' = CapsuleReturn(IF vret.err # "" THEN "directory verification failed"
                              ELSE IF ~vret.Success THEN "capsule verification failed"
                              ELSE "")
    /\ UNCHANGED <<storeVars, callerVars, hashVars, verifyVars, fnVars, capsulePlaylist, directoryPath, hashesInput>>

\* the arguments of the command
Item(repro) == [Repro |-> repro]
Repro(hashes) == [AssetsSHA256 |-> hashes]
CapsulePlaylists ==
    {NoPlaylist, [text |-> "invalid"]}
        \cup {[text |-> "valid", Items |-> items] :
                items \in {<<>>, <<Item(Null)>>, <<Item(Repro(<<>>))>>,
                           <<Item(Repro(<<UpperDigest(1)>>))>>,
                           <<Item(Repro(<<Digest(2)>>)), Item(Null), Item(Repro(<<Digest(1)>>))>>}}
\* no path, a path that is no directory, and the directories of fewer than
\* MaxEntries files (readable or not) and subdirectories
CapsulePaths ==
    {NoPath} \cup {dir \in Directories :
                      /\ Len(dir.entries) < MaxEntries
                      /\ \A i \in 1..Len(dir.entries) : dir.entries[i] \in {"file", "unreadable", "dir"}}
NotAHash == [i \in 1..HashLen |-> "z"]
HashesInputs ==
    {NoString,
     NotAHash,
     <<",", " ">>,
     <<"[">> \o NotAHash \o <<",">> \o SubSeq(Digest(1), 1, HashLen - 1) \o <<"]">>,
     Digest(1),
     <<"[">> \o UpperDigest(1) \o <<",", " ">> \o Digest(2) \o <<"]">>,
     <<"0", "x">> \o Digest(1),
     Digest(2) \o <<";">> \o NotAHash \o <<"\n">> \o Digest(1)}

CapsuleNext ==
    \/ \E pl \in CapsulePlaylists, path \in CapsulePaths, hashes \in HashesInputs :
            validateCapsule(pl, path, hashes)
    \/ verifyDirectory
    \/ startWorker
    \/ sendJob
    \/ closeJobChan
    \/ waitAndClose
    \/ collect
    \/ \E i \in 1..WorkerCap : worker(i)
    \/ validateCapsuleReturn

CapsuleSpec == Init /\ [][CapsuleNext]_vars

(***************************************************************************)
(* validator/playlist/playlist.go: canonicalizeJSON.  A JSON value is a    *)
(* tagged record: an object holds its members <<key, value>> in the order  *)
(* the map happens to be iterated in, an array its items, a string its     *)
(* characters, a number its digits.  The output is the sequence of its     *)
(* characters.                                                             *)
(***************************************************************************)
JObject(members) == [t |-> "object", val |-> members]
JArray(items) == [t |-> "array", val |-> items]
JString(chars) == [t |-> "string", val |-> chars]
JNumber(digits) == [t |-> "number", val |-> digits]

\* json.Marshal of a string: quoted, with the escapes of encoding/json
EscapeChar(c) ==
    CASE c = "\"" -> <<"\\", "\"">>
      [] c = "\\" -> <<"\\", "\\">>
      [] c = "\n" -> <<"\\", "n">>
      [] c = "\r" -> <<"\\", "r">>
      [] c = "<" -> <<"\\", "u", "0", "0", "3", "c">>
      [] OTHER -> <<c>>
RECURSIVE Escape(_)
Escape(chars) ==
    IF chars = <<>> THEN <<>> ELSE EscapeChar(Head(chars)) \o Escape(Tail(chars))
MarshalString(chars) == <<"\"">> \o Escape(chars) \o <<"\"">>

\* the keys of an object as the map yields them
KeysInOrder(v) == [i \in 1..Len(v.val) |-> v.val[i][1]]
\* lines 153-157: the keys of the map, sorted
SortedKeys(v) == SortStrings({v.val[i][1] : i \in 1..Len(v.val)})
\* v[k]
ValueAt(v, k) == v.val[CHOOSE i \in 1..Len(v.val) : v.val[i][1] = k][2]

\* the items of an array from the last to the first
ItemsReversed(v) == [i \in 1..Len(v.val) |-> v.val[Len(v.val) + 1 - i]]
\* range v
ItemsInOrder(v) == v.val

RECURSIVE canonicalizeJSON(_), CanonMembers(_, _, _), CanonItems(_, _)
\* lines 161-172: the members in the order of `keys`, from the i-th
CanonMembers(v, keys, i) ==
    IF i > Len(keys) THEN <<>>
    ELSE (IF i > 1 THEN <<",">> ELSE <<>>)
            \o MarshalString(keys[i]) \o <<":">> \o canonicalizeJSON(ValueAt(v, keys[i]))
            \o CanonMembers(v, keys, i + 1)
\* lines 180-189: the items, from the i-th
CanonItems(items, i) ==
    IF i > Len(items) THEN <<>>
    ELSE (IF i > 1 THEN <<",">> ELSE <<>>)
            \o canonicalizeJSON(items[i]) \o CanonItems(items, i + 1)
canonicalizeJSON(obj) ==
    CASE obj.t = "object" -> <<"{">> \o CanonMembers(obj, SortedKeys(obj), 1) \o <<"}">>
      [] obj.t = "array" -> <<"[">> \o CanonItems(ItemsInOrder(obj), 1) \o <<"]">>
      [] obj.t = "string" -> MarshalString(obj.val)
      [] OTHER -> obj.val

\* the values canonicalized: scalars, arrays of at most MaxItems items and
\* objects of the keys of JKeys in every order, nested
MaxItems == 2
JKeys == {<<"i","d">>, <<"I","t","e","m","s">>}
JScalars == {JString(<<"x">>), JString(<<"a", "\n", "\r", "\"", "<">>), JNumber(<<"3","0","0">>)}
ObjectsOf(values) ==
    {JObject(<<>>)}
        \cup {JObject(<<<<k, v>>>>) : k \in JKeys, v \in values}
        \cup {JObject(<<<<ks[1], v1>>, <<ks[2], v2>>>>) :
                ks \in {q \in JKeys \X JKeys : q[1] # q[2]}, v1 \in values, v2 \in values}
ArraysOf(values) == {JArray(items) : items \in SeqsUpTo(values, MaxItems)}
JFlat(scalars) == scalars \cup ArraysOf(scalars) \cup ObjectsOf(scalars)
JValues(scalars) ==
    JFlat(scalars) \cup ObjectsOf(JFlat(scalars)) \cup ArraysOf(ObjectsOf(scalars))
        \cup {JObject(<<<<k, a>>>>) : k \in JKeys, a \in ArraysOf(ObjectsOf(scalars))}

CanonInit ==
    /\ StoreInit /\ ListInit /\ ApiInit /\ PlayerInit /\ HashInit /\ VerifyInit /\ CapsuleInit
    /\ fnArgs \in {[fn |-> "canonicalizeJSON", obj |-> v] : v \in JValues(JScalars)}
    /\ fnOut = NoResult

\* CanonicalizePlaylist, GetPlaylistHash and GetSignableContent call it on a
\* map; a caller may call it once more on the same value, and has the bytes
\* of the call before
canonicalizeJSONCall ==
    /\ fnArgs.fn = "canonicalizeJSON"
    /\ IF fnOut.returned THEN ~fnOut.again ELSE TRUE
    /\ fnOut' = [returned |-> TRUE,
                 bytes |-> canonicalizeJSON(fnArgs.obj),
                 again |-> fnOut.returned,
                 before |-> IF fnOut.returned THEN fnOut.bytes ELSE <<>>]
    /\ UNCHANGED <<storeVars, callerVars, hashVars, verifyVars, capsuleVars, fnArgs>>

CanonNext == canonicalizeJSONCall

CanonSpec == CanonInit /\ [][CanonNext]_vars

(***************************************************************************)
(* validator/playlist/playlist.go: ParsePlaylist, CanonicalizePlaylist and *)
(* GetSignableContent.  The raw data of a playlist is the JSON value of    *)
(* its text, members in the order of the text.                             *)
(***************************************************************************)
JNull == [t |-> "null", val |-> <<"n", "u", "l", "l">>]

kDpVersion == <<"d","p","V","e","r","s","i","o","n">>
kId == <<"i","d">>
kSlug == <<"s","l","u","g">>
kTitle == <<"t","i","t","l","e">>
kCreated == <<"c","r","e","a","t","e","d">>
kDefaults == <<"d","e","f","a","u","l","t","s">>
kItems == <<"i","t","e","m","s">>
kSignature == <<"s","i","g","n","a","t","u","r","e">>
kSignatures == <<"s","i","g","n","a","t","u","r","e","s">>
kSource == <<"s","o","u","r","c","e">>
kDuration == <<"d","u","r","a","t","i","o","n">>
kLicense == <<"l","i","c","e","n","s","e">>
kRef == <<"r","e","f">>
kOverride == <<"o","v","e","r","r","i","d","e">>
kDisplay == <<"d","i","s","p","l","a","y">>
kRepro == <<"r","e","p","r","o">>
kProvenance == <<"p","r","o","v","e","n","a","n","c","e">>
kEngineVersion == <<"e","n","g","i","n","e","V","e","r","s","i","o","n">>
kSeed == <<"s","e","e","d">>
kAssetsSHA256 == <<"a","s","s","e","t","s","S","H","A","2","5","6">>
kFrameHash == <<"f","r","a","m","e","H","a","s","h">>
kType == <<"t","y","p","e">>
kContract == <<"c","o","n","t","r","a","c","t">>
kDependencies == <<"d","e","p","e","n","d","e","n","c","i","e","s">>
kRole == <<"r","o","l","e">>

\* json.Unmarshal into a map: of two members with one key the later stays
UnmarshalMap(rawData) ==
    JObject(SelectSeq([i \in 1..Len(rawData.val) |->
                          IF \E j \in (i + 1)..Len(rawData.val) :
                                 rawData.val[j][1] = rawData.val[i][1]
                          THEN <<>> ELSE rawData.val[i]],
                      LAMBDA m : m # <<>>))
HasKey(v, k) == \E i \in 1..Len(v.val) : v.val[i][1] = k
\* delete(obj, key)
Delete(obj, key) == JObject(SelectSeq(obj.val, LAMBDA m : m[1] # key))

\* a field of a struct: its json name, its Go type, omitempty, and for a
\* struct or a slice of structs the struct's name
Field(name, kind, omitempty, of) ==
    [name |-> name, kind |-> kind, omitempty |-> omitempty, of |-> of]
StructFields(T) ==
    CASE T = "Playlist" ->
            << Field(kDpVersion, "string", FALSE, ""),
               Field(kId, "string", FALSE, ""),
               Field(kSlug, "string", TRUE, ""),
               Field(kCreated, "string", FALSE, ""),
               Field(kDefaults, "map", TRUE, ""),
               Field(kItems, "structs", FALSE, "PlaylistItem"),
               Field(kSignature, "string", TRUE, "") >>
      [] T = "PlaylistItem" ->
            << Field(kId, "string", FALSE, ""),
               Field(kSlug, "string", TRUE, ""),
               Field(kTitle, "string", TRUE, ""),
               Field(kSource, "string", FALSE, ""),
               Field(kDuration, "int", TRUE, ""),
               Field(kLicense, "string", TRUE, ""),
               Field(kRef, "string", TRUE, ""),
               Field(kOverride, "map", TRUE, ""),
               Field(kDisplay, "map", TRUE, ""),
               Field(kRepro, "struct", TRUE, "ReproBlock"),
               Field(kProvenance, "struct", TRUE, "ProvenanceBlock") >>
      [] T = "ReproBlock" ->
            << Field(kEngineVersion, "map", TRUE, ""),
               Field(kSeed, "string", TRUE, ""),
               Field(kAssetsSHA256, "slice", TRUE, ""),
               Field(kFrameHash, "map", TRUE, "") >>
      [] T = "ProvenanceBlock" ->
            << Field(kType, "string", FALSE, ""),
               Field(kContract, "map", TRUE, ""),
               Field(kDependencies, "slice", TRUE, "") >>

\* the zero value of a Go type, as the JSON value json.Marshal writes for it
Zero(kind) ==
    CASE kind = "string" -> JString(<<>>)
      [] kind = "int" -> JNumber(<<"0">>)
      [] OTHER -> JNull
\* omitempty leaves out false, 0, a nil pointer and an empty string, map or
\* slice; a pointer to a struct is left out only when nil
IsEmptyValue(kind, v) ==
    \/ v = JNull
    \/ kind = "string" /\ v = JString(<<>>)
    \/ kind = "int" /\ v = JNumber(<<"0">>)
    \/ kind \in {"map", "slice", "structs"} /\ v.val = <<>>

RECURSIVE UnmarshalStruct(_, _), UnmarshalField(_, _), MarshalStruct(_, _), MarshalField(_, _)
\* json.Unmarshal into a struct: the declared fields, each from the member of
\* its name or zero; members of other names are skipped
UnmarshalField(f, obj) ==
    IF ~HasKey(obj, f.name) \/ ValueAt(obj, f.name) = JNull THEN Zero(f.kind)
    ELSE LET v == ValueAt(obj, f.name)
         IN  CASE f.kind = "struct" -> UnmarshalStruct(f.of, UnmarshalMap(v))
               [] f.kind = "structs" ->
                    JArray([i \in 1..Len(v.val) |-> UnmarshalStruct(f.of, UnmarshalMap(v.val[i]))])
               [] f.kind = "map" -> UnmarshalMap(v)
               [] OTHER -> v
UnmarshalStruct(T, obj) ==
    JObject([i \in 1..Len(StructFields(T)) |->
                <<StructFields(T)[i].name, UnmarshalField(StructFields(T)[i], obj)>>])
\* json.Marshal of a struct: its fields in the order of the declaration, but
\* for the empty ones tagged omitempty
MarshalField(f, v) ==
    IF v = JNull THEN JNull
    ELSE CASE f.kind = "struct" -> MarshalStruct(f.of, v)
           [] f.kind = "structs" ->
                JArray([i \in 1..Len(v.val) |-> MarshalStruct(f.of, v.val[i])])
           [] OTHER -> v
MarshalStruct(T, s) ==
    JObject(SelectSeq(
        [i \in 1..Len(StructFields(T)) |->
            IF StructFields(T)[i].omitempty
                   /\ IsEmptyValue(StructFields(T)[i].kind, s.val[i][2])
            THEN <<>>
            ELSE <<StructFields(T)[i].name, MarshalField(StructFields(T)[i], s.val[i][2])>>],
        LAMBDA m : m # <<>>))

\* lines 69-92, for an input that is the text of a JSON object
ParsePlaylist(rawData) == UnmarshalStruct("Playlist", UnmarshalMap(rawData))
\* lines 133-146
CanonicalizePlaylist(playlist) ==
    canonicalizeJSON(UnmarshalMap(MarshalStruct("Playlist", playlist)))
\* delete(obj, "signature")
DeleteSignature(obj) == Delete(obj, kSignature)
\* lines 210-221
GetSignableContent(rawData) == canonicalizeJSON(DeleteSignature(UnmarshalMap(rawData)))


\* the playlists given to the validator: every member but dpVersion, id and
\* items may be missing; `title` and `signatures` are members the Playlist
\* struct does not declare; a slug may be empty and a duration 0
Opt(k, values) == {<<>>} \cup {<< <<k, v>> >> : v \in values}
SignatureRecords ==
    {JObject(<< <<kRole, JString(<<"c">>)>> >>), JObject(<< <<kRole, JString(<<"f">>)>> >>)}
RawItems ==
    {JObject(<< <<kId, JString(<<"i">>)>>, <<kSource, JString(<<"u">>)>> >> \o t \o d) :
        t \in Opt(kTitle, {JString(<<"T">>)}),
        d \in Opt(kDuration, {JNumber(<<"0">>), JNumber(<<"5">>)})}
RawPlaylists ==
    {JObject(<< <<kDpVersion, JString(<<"1">>)>> >> \o sg \o sl \o ti
                \o << <<kItems, JArray(<<it>>)>>, <<kId, JString(<<"p">>)>> >> \o cr \o sgs) :
        sg \in Opt(kSignature, {JString(<<"a">>), JString(<<"b">>)}),
        sl \in Opt(kSlug, {JString(<<>>), JString(<<"s">>)}),
        ti \in Opt(kTitle, {JString(<<"T">>)}),
        it \in RawItems,
        cr \in Opt(kCreated, {JString(<<"2">>)}),
        sgs \in Opt(kSignatures, {JArray(<<r>>) : r \in SignatureRecords})}

PlaylistInit ==
    /\ StoreInit /\ ListInit /\ ApiInit /\ PlayerInit /\ HashInit /\ VerifyInit /\ CapsuleInit
    /\ fnArgs \in {[fn |-> "playlist", rawData |-> r] : r \in RawPlaylists}
    /\ fnOut = NoResult

GetSignableContentCall ==
    /\ fnArgs.fn = "playlist"
    /\ ~fnOut.returned
    /\ fnOut' = [returned |-> TRUE, op |-> "GetSignableContent",
                 bytes |-> GetSignableContent(fnArgs.rawData)]
    /\ UNCHANGED <<storeVars, callerVars, hashVars, verifyVars, capsuleVars, fnArgs>>

\* ParsePlaylist, then CanonicalizePlaylist of the playlist parsed
CanonicalizePlaylistCall ==
    /\ fnArgs.fn = "playlist"
    /\ ~fnOut.returned
    /\ fnOut' = [returned |-> TRUE, op |-> "CanonicalizePlaylist",
                 bytes |-> CanonicalizePlaylist(ParsePlaylist(fnArgs.rawData))]
    /\ UNCHANGED <<storeVars, callerVars, hashVars, verifyVars, capsuleVars, fnArgs>>

PlaylistNext ==
    \/ GetSignableContentCall
    \/ CanonicalizePlaylistCall

PlaylistSpec == PlaylistInit /\ [][PlaylistNext]_vars

(***************************************************************************)
(* Signature verification: the playlist command of the validator (main.go  *)
(* validatePlaylist, legacy `signature` only) and the verification of a    *)
(* `signatures` chain.  A SHA-256 digest is the Digest of the place of the *)
(* hashed bytes in the list of the contents hashed here; a signature is    *)
(* the signing key followed by what was signed.                            *)
(***************************************************************************)
kAlg == <<"a","l","g">>
kKid == <<"k","i","d">>
kPayloadHash == <<"p","a","y","l","o","a","d","_","h","a","s","h">>
kSig == <<"s","i","g">>
Ed25519Prefix == <<"e","d","2","5","5","1","9",":">>
Sha256Prefix == <<"s","h","a","2","5","6",":">>
AlgEd25519 == <<"e","d","2","5","5","1","9">>
AlgEip191 == <<"e","i","p","1","9","1">>
AlgUnknown == <<"r","s","a">>

\* the content of a playlist as signed, the same with its members in another
\* order, and the content with one byte changed
ContentSigned ==
    << <<kDpVersion, JString(<<"1">>)>>, <<kId, JString(<<"p">>)>>,
       <<kCreated, JString(<<"2">>)>>,
       <<kItems, JArray(<<JObject(<< <<kId, JString(<<"i">>)>>, <<kSource, JString(<<"u">>)>> >>)>>)>> >>
ContentReordered == <<ContentSigned[4], ContentSigned[3], ContentSigned[2], ContentSigned[1]>>
ContentChanged == [ContentSigned EXCEPT ![2] = <<kId, JString(<<"q">>)>>]
ChainContents == <<ContentSigned, ContentReordered, ContentChanged>>

\* lines 199-208 of playlist.go: sha256.Sum256 and %x
HashedBytes == [i \in 1..Len(ChainContents) |-> canonicalizeJSON(JObject(ChainContents[i]))]
Sha256Same(bytes) == Digest(1)
Sha256Hex(bytes) ==
    Digest(CHOOSE i \in 1..Len(HashedBytes) :
               /\ HashedBytes[i] = bytes
               /\ \A j \in 1..(i - 1) : HashedBytes[j] # bytes)

\* the keys: the trusted public key of the legacy signature, the key a kid
\* resolves to, and a kid that resolves to nothing
TrustedPubkey == "P"
ChainKey == "K"
KidKnown == <<"k">>
KidUnknown == <<"x">>
Sign(key, message) == <<key>> \o message
keyResolver(kid) == IF kid = KidKnown THEN ChainKey ELSE "none"
SupportedAlgs == {AlgEd25519, AlgEip191}

\* 4.3 SignatureChain, verifyChain steps (1) to (3) for one record: "" when
\* the signature is valid
PayloadHashOf(playlist) ==
    Sha256Prefix \o Sha256Hex(canonicalizeJSON(
        Delete(Delete(UnmarshalMap(playlist), kSignature), kSignatures)))
keyFirstRecord(playlist, record) ==
    IF keyResolver(ValueAt(record, kKid).val) = "none" THEN "KeyResolutionFailed"
    ELSE IF ValueAt(record, kPayloadHash).val # PayloadHashOf(playlist)
    THEN "PayloadHashMismatch"
    ELSE IF ValueAt(record, kAlg).val \notin SupportedAlgs THEN "UnsupportedAlgorithm"
    ELSE IF ValueAt(record, kSig).val
                # Sign(keyResolver(ValueAt(record, kKid).val), ValueAt(record, kPayloadHash).val)
    THEN "SigInvalid"
    ELSE ""
verifyRecord(playlist, record) ==
    IF ValueAt(record, kPayloadHash).val # PayloadHashOf(playlist)
    THEN "PayloadHashMismatch"
    ELSE IF keyResolver(ValueAt(record, kKid).val) = "none" THEN "KeyResolutionFailed"
    ELSE IF ValueAt(record, kAlg).val \notin SupportedAlgs THEN "UnsupportedAlgorithm"
    ELSE IF ValueAt(record, kSig).val
                # Sign(keyResolver(ValueAt(record, kKid).val), ValueAt(record, kPayloadHash).val)
    THEN "SigInvalid"
    ELSE ""

RoleCurator == <<"c","u","r","a","t","o","r">>
RoleFeed == <<"f","e","e","d">>
RoleAgent == <<"a","g","e","n","t">>
RoleInstitution == <<"i","n","s","t","i","t","u","t","i","o","n">>
\* the default trust policy, on the roles declared and the roles with a valid
\* signature
AnyRolePolicy(declared, valid) == valid # {}
DefaultPolicy(declared, valid) ==
    /\ valid \cap {RoleCurator, RoleFeed} # {}
    /\ RoleAgent \in declared => RoleAgent \in valid

SignaturesOf(playlist) ==
    IF HasKey(playlist, kSignatures) THEN ValueAt(playlist, kSignatures).val ELSE <<>>
verifyChain(playlist) ==
    LET records == SignaturesOf(playlist)
        errors == [i \in 1..Len(records) |-> verifyRecord(playlist, records[i])]
        declared == {ValueAt(records[i], kRole).val : i \in 1..Len(records)}
        valid == {ValueAt(records[i], kRole).val : i \in {j \in 1..Len(records) : errors[j] = ""}}
    IN  [ok |-> DefaultPolicy(declared, valid), roles |-> valid, errors |-> errors]


\* lines 273-276 of playlist.go
HasSignature(playlist) == ValueAt(playlist, kSignature) # JString(<<>>)
StartsWith(str, prefix) == Len(str) >= Len(prefix) /\ SubSeq(str, 1, Len(prefix)) = prefix
\* lines 224-270 of playlist.go: the tags `required`, `min=1`, `dive` and
\* `startswith=ed25519:`; the values are of the formats the other tags ask for
ValidatePlaylistStructure(playlist) ==
    /\ \A k \in {kDpVersion, kId, kCreated} : ValueAt(playlist, k) # JString(<<>>)
    /\ ValueAt(playlist, kItems) # JNull
    /\ Len(ValueAt(playlist, kItems).val) >= 1
    /\ \A i \in 1..Len(ValueAt(playlist, kItems).val) :
           \A k \in {kId, kSource} : ValueAt(ValueAt(playlist, kItems).val[i], k) # JString(<<>>)
    /\ HasSignature(playlist) => StartsWith(ValueAt(playlist, kSignature).val, Ed25519Prefix)
\* the checks of the validator package the playlist command calls
ValidatePublicKey(pubkeyHex) == pubkeyHex # "malformed"
ValidateSignatureFormat(signature) ==
    StartsWith(signature, Ed25519Prefix) /\ Len(signature) > Len(Ed25519Prefix)
VerifySignature(pubkeyHex, content, signature) ==
    signature = Ed25519Prefix \o Sign(pubkeyHex, Sha256Hex(content))
\* CanonicalizePlaylist(p, true): the canonical form without the signature
CanonicalizeSignable(playlist) ==
    CanonicalizePlaylist(JObject([i \in 1..Len(playlist.val) |->
        IF playlist.val[i][1] = kSignature THEN <<kSignature, JString(<<>>)>>
        ELSE playlist.val[i]]))

\* main.go lines 84-147: the error returned, "" for nil
validatePlaylistError(playlistInput, pubkeyHex) ==
    LET p == ParsePlaylist(playlistInput)
    IN  IF ~ValidatePlaylistStructure(p) THEN "playlist structure validation failed"
        ELSE IF ~HasSignature(p) THEN "playlist does not contain a signature"
        ELSE IF ~ValidatePublicKey(pubkeyHex) THEN "invalid public key"
        ELSE IF ~ValidateSignatureFormat(ValueAt(p, kSignature).val)
        THEN "invalid signature format"
        ELSE IF ~VerifySignature(pubkeyHex, CanonicalizeSignable(p), ValueAt(p, kSignature).val)
        THEN "signature verification failed"
        ELSE ""

\* the playlists verified: the content signed or changed since, a legacy
\* signature that is missing, malformed, empty, wrong or right, and up to MaxRecords
\* signature records made over the content signed, each right or wrong in
\* one way
MaxRecords == 2
RecordKinds == {"valid", "unresolvable", "unsupported", "forged"}
Roles == {RoleCurator, RoleFeed, RoleAgent, RoleInstitution}
SignatureRecord(role, kind) ==
    LET hash == Sha256Prefix \o Sha256Hex(canonicalizeJSON(JObject(ContentSigned)))
    IN  JObject(<< <<kAlg, JString(IF kind = "unsupported" THEN AlgUnknown ELSE AlgEd25519)>>,
                   <<kKid, JString(IF kind = "unresolvable" THEN KidUnknown ELSE KidKnown)>>,
                   <<kPayloadHash, JString(hash)>>,
                   <<kRole, JString(role)>>,
                   <<kSig, JString(IF kind = "forged" THEN Sign("Z", hash)
                                   ELSE Sign(ChainKey, hash))>> >>)
LegacySignatures(content) ==
    {<<>>, << <<kSignature, JString(<<"b">>)>> >>, << <<kSignature, JString(Ed25519Prefix)>> >>,
     << <<kSignature, JString(Ed25519Prefix \o Sign("Z", Sha256Hex(canonicalizeJSON(JObject(content)))))>> >>,
     << <<kSignature, JString(Ed25519Prefix
                \o Sign(TrustedPubkey, Sha256Hex(canonicalizeJSON(JObject(content)))))>> >>}
ChainOf(records) == IF records = <<>> THEN <<>> ELSE << <<kSignatures, JArray(records)>> >>
AllRecords == {SignatureRecord(r, k) : r \in Roles, k \in RecordKinds}
\* every legacy signature with no chain or a chain of one record, and no
\* legacy signature with the longer chains
SignedPlaylists ==
    {JObject(ChainContents[c] \o legacy \o ChainOf(records)) :
        c \in 1..Len(ChainContents),
        legacy \in UNION {LegacySignatures(ChainContents[i]) : i \in 1..Len(ChainContents)},
        records \in SeqsUpTo(AllRecords, 1)}
      \cup {JObject(content \o ChainOf(records)) :
                content \in {ContentSigned, ContentChanged},
                records \in SeqsUpTo(AllRecords, MaxRecords)}

ChainInit ==
    /\ StoreInit /\ ListInit /\ ApiInit /\ PlayerInit /\ HashInit /\ VerifyInit /\ CapsuleInit
    /\ fnArgs \in {[fn |-> "verify", playlist |-> p] : p \in SignedPlaylists}
    /\ fnOut = NoResult

validatePlaylist(pubkeyHex) ==
    /\ fnArgs.fn = "verify"
    /\ ~fnOut.returned
    /\ fnOut' = [returned |-> TRUE, op |-> "validatePlaylist", pubkeyHex |-> pubkeyHex,
                 err |-> validatePlaylistError(fnArgs.playlist, pubkeyHex)]
    /\ UNCHANGED <<storeVars, callerVars, hashVars, verifyVars, capsuleVars, fnArgs>>

verifyChainCall ==
    /\ fnArgs.fn = "verify"
    /\ ~fnOut.returned
    /\ fnOut' = [returned |-> TRUE, op |-> "verifyChain",
                 result |-> verifyChain(fnArgs.playlist)]
    /\ UNCHANGED <<storeVars, callerVars, hashVars, verifyVars, capsuleVars, fnArgs>>

ChainNext ==
    \/ \E pubkeyHex \in {TrustedPubkey, "malformed"} : validatePlaylist(pubkeyHex)
    \/ verifyChainCall

ChainSpec == ChainInit /\ [][ChainNext]_vars

(***************************************************************************)
(* The API of the server: POST and PUT of playlists and playlist groups.   *)
(* One request is handled at a time.  The handler validates the request    *)
(* and awaits the lookup of the stored record, then builds the record and  *)
(* awaits its save, then responds.                                         *)
(***************************************************************************)
LowerLetters == {Ascii[i] : i \in 40..65}
DigitChars == <<"0","1","2","3","4","5","6","7","8","9">>

\* the decimal digits of a number, as template literals render it
RECURSIVE DecimalString(_)
DecimalString(n) ==
    IF n < 10 THEN <<DigitChars[n + 1]>>
    ELSE DecimalString(n \div 10) \o <<DigitChars[(n % 10) + 1]>>

\* .toLowerCase().replace(/[^a-z0-9]/g, '-')
SlugChar(c) ==
    LET lower == ToLowerChar(c)
    IN  IF lower \in LowerLetters \cup Digits THEN lower ELSE "-"
\* .replace(/-+/g, '-')
RECURSIVE CollapseHyphens(_)
CollapseHyphens(s) ==
    IF Len(s) < 2 THEN s
    ELSE IF s[1] = "-" /\ s[2] = "-" THEN CollapseHyphens(Tail(s))
    ELSE <<s[1]>> \o CollapseHyphens(Tail(s))
\* .replace(/^-|-$/g, '')
StripEdgeHyphens(s) ==
    LET a == IF Len(s) > 0 /\ s[1] = "-" THEN Tail(s) ELSE s
    IN  IF Len(a) > 0 /\ a[Len(a)] = "-" THEN SubSeq(a, 1, Len(a) - 1) ELSE a

\* the values Math.floor(1000 + Math.random() * 9000) takes, of which the
\* model draws the first SuffixCount
FirstSuffix == 1000
SuffixCount == 2
SlugSuffixes == FirstSuffix..(FirstSuffix + SuffixCount - 1)

MaxSlugLength == 64
generateSlug(title, randomSuffix) ==
    LET baseSlug == StripEdgeHyphens(CollapseHyphens([i \in 1..Len(title) |-> SlugChar(title[i])]))
        maxBaseLength == MaxSlugLength - 5
        trimmedBase == IF Len(baseSlug) > maxBaseLength
                       THEN SubSeq(baseSlug, 1, maxBaseLength) ELSE baseSlug
    IN  trimmedBase \o <<"-">> \o DecimalString(randomSuffix)

\* isUuid || /^[a-zA-Z0-9-]+$/.test(identifier)
validateIdentifier(identifier) ==
    \/ IsUuid(identifier)
    \/ /\ Len(identifier) >= 1
       /\ \A i \in 1..Len(identifier) : identifier[i] \in Letters \cup Digits \cup {"-"}

\* new Date().toISOString(): the clock advances with every call of the store
Now == calls + 1
\* record.created, undefined (falsy) when the record has none
Created(record) == IF "created" \in DOMAIN record THEN record.created ELSE 0

\* validatedData.items.find(item => item.title)?.title || validatedData.id
PlaylistTitle(validatedData) ==
    LET titled == {i \in 1..Len(validatedData.items) : Len(validatedData.items[i].title) > 0}
    IN  IF titled = {} THEN validatedData.id
        ELSE validatedData.items[CHOOSE i \in titled : \A j \in titled : i <= j].title

\* signPlaylist(playlistWithoutSignature, keyPair.privateKey)
ServerSignature == Ed25519Prefix \o <<"s">>

\* the playlist POST /playlists saves
createdPlaylist(validatedData, randomSuffix, now) ==
    [id |-> validatedData.id,
     slug |-> generateSlug(PlaylistTitle(validatedData), randomSuffix),
     items |-> validatedData.items,
     created |-> now,
     signature |-> ServerSignature]
\* a PUT that stamps the playlist anew
updatedPlaylistStamped(existingPlaylist, validatedData, randomSuffix, now) ==
    createdPlaylist(validatedData, randomSuffix, now)
\* the playlist PUT /playlists/:id saves
updatedPlaylist(existingPlaylist, validatedData, randomSuffix, now) ==
    [id |-> validatedData.id,
     slug |-> generateSlug(PlaylistTitle(validatedData), randomSuffix),
     items |-> validatedData.items,
     created |-> IF Created(existingPlaylist) # 0 THEN Created(existingPlaylist) ELSE now,
     signature |-> ServerSignature]

\* the group POST /playlist-groups saves
createdGroup(validatedData, randomSuffix, now) ==
    [id |-> validatedData.id,
     slug |-> generateSlug(validatedData.title, randomSuffix),
     title |-> validatedData.title,
     playlists |-> validatedData.playlists,
     created |-> now]
\* the group PUT /playlist-groups/:id saves
updatedGroup(existingGroup, validatedData, randomSuffix, now) ==
    [id |-> existingGroup.id,
     slug |-> generateSlug(validatedData.title, randomSuffix),
     title |-> validatedData.title,
     playlists |-> validatedData.playlists,
     created |-> existingGroup.created]

\* the titles of the requests
titleArt == <<"A","r","t">>
titleNewArt == <<"N","e","w"," ","A","r","t","!">>

PlaylistBodies ==
    {[id |-> id, items |-> <<[title |-> t]>>] :
        id \in {playlistId1, playlistId2}, t \in {titleNewArt, NoString}}
GroupBodies ==
    {[id |-> groupId1, title |-> t, playlists |-> l] :
        t \in {titleArt}, l \in {<<urlSelfById>>, <<urlExternal>>}}
Bodies(kind) == IF kind = "playlist" THEN PlaylistBodies ELSE GroupBodies

\* the :id of a PUT: an ID, a slug a record is stored under, or a string
\* that is neither
StoredSlugs(ns, slugPrefix) == {k[2] : k \in {x \in DOMAIN kv[ns] : x[1] = slugPrefix}}
PutIdentifiers(kind) ==
    IF kind = "playlist"
    THEN {playlistId1, playlistId2, <<"a","_","b">>}
            \cup StoredSlugs(DP1_PLAYLISTS, PLAYLIST_SLUG_PREFIX)
    ELSE {groupId1, <<"a","_","b">>}
            \cup StoredSlugs(DP1_PLAYLIST_GROUPS, PLAYLIST_GROUP_SLUG_PREFIX)

\* the handler that serves the requests
ApiHandler == CHOOSE p \in Procs : \A q \in Procs : p <= q
Response(status, error) == [stage |-> "done", status |-> status, error |-> error]
AwaitSave(method, kind, existing, validatedData) ==
    [stage |-> "save", method |-> method, kind |-> kind, existing |-> existing,
     validatedData |-> validatedData, at |-> calls]

StoredRecord(kind, identifier) ==
    IF kind = "playlist" THEN getPlaylistByIdOrSlug(kv, identifier).value
    ELSE getPlaylistGroupByIdOrSlug(kv, identifier).value

\* the requests that reach the store are bounded
MaxRequests == 2
CanReceive ==
    /\ req.stage \in {"none", "done"}
    /\ pc[ApiHandler] = "idle"
    /\ calls < MaxRequests

\* POST: 409 when a record of the ID is stored, else the record is built
\* and saved
post(kind, validatedData) ==
    /\ CanReceive
    /\ req' = IF StoredRecord(kind, validatedData.id) # Null
              THEN Response(409, "conflict")
              ELSE AwaitSave("POST", kind, Null, validatedData)
    /\ UNCHANGED <<posts, returned, storeVars, listVars, playerVars, hashVars, verifyVars, fnVars, capsuleVars>>

\* PUT: 400 for an identifier that is no UUID and no slug, 404 when no
\* record is found, 400 when the ID of a playlist is not the stored one
put(kind, identifier, validatedData) ==
    /\ CanReceive
    /\ req' = IF ~validateIdentifier(identifier) THEN Response(400, "invalid_id")
              ELSE LET existing == StoredRecord(kind, identifier)
                   IN  IF existing = Null THEN Response(404, "not_found")
                       ELSE IF kind = "playlist" /\ validatedData.id # existing.id
                            THEN Response(400, "id_mismatch")
                       ELSE AwaitSave("PUT", kind, existing, validatedData)
    /\ UNCHANGED <<posts, returned, storeVars, listVars, playerVars, hashVars, verifyVars, fnVars, capsuleVars>>

\* the record of the request
RequestRecord(randomSuffix) ==
    IF req.kind = "playlist"
    THEN IF req.method = "POST"
         THEN createdPlaylist(req.validatedData, randomSuffix, Now)
         ELSE updatedPlaylist(req.existing, req.validatedData, randomSuffix, Now)
    ELSE IF req.method = "POST"
         THEN createdGroup(req.validatedData, randomSuffix, Now)
         ELSE updatedGroup(req.existing, req.validatedData, randomSuffix, Now)

\* the handler builds the record and calls savePlaylist or savePlaylistGroup
saveRecord ==
    /\ req.stage = "save"
    /\ req.at = calls
    /\ \E randomSuffix \in SlugSuffixes :
          IF req.kind = "playlist"
          THEN savePlaylist(ApiHandler, RequestRecord(randomSuffix))
          ELSE savePlaylistGroupStart(ApiHandler, RequestRecord(randomSuffix))

\* the save has returned: the handler responds
respond ==
    /\ req.stage = "save"
    /\ req.at < calls
    /\ pc[ApiHandler] = "idle"
    /\ req' = [stage |-> "done"]
    /\ UNCHANGED <<posts, returned, storeVars, listVars, playerVars, hashVars, verifyVars, fnVars, capsuleVars>>

Kinds == {"playlist", "group"}
ApiNext ==
    \/ \E kind \in Kinds : \E validatedData \in Bodies(kind) : post(kind, validatedData)
    \/ \E kind \in Kinds : \E identifier \in PutIdentifiers(kind) :
          \E validatedData \in Bodies(kind) : put(kind, identifier, validatedData)
    \/ saveRecord
    \/ respond
    \/ Progress(ApiHandler)
    \/ ApplyAny(ApiHandler)

ApiSpec == Init /\ [][ApiNext]_vars

(***************************************************************************)
(* POST /playlists and POST /playlist-groups over the one-key store of     *)
(* fileUtils.ts, served by handlers that run concurrently.                 *)
(***************************************************************************)
PlaylistKey(id) == <<"playlist:", id>>
PlaylistGroupKey(id) == <<"playlist-group:", id>>
RecordNamespace(kind) == IF kind = "playlist" THEN DP1_PLAYLISTS ELSE DP1_PLAYLIST_GROUPS
RecordKey(kind, id) == IF kind = "playlist" THEN PlaylistKey(id) ELSE PlaylistGroupKey(id)

\* value !== null of the key of the ID
playlistExists(store, id) == PlaylistKey(id) \in DOMAIN store[DP1_PLAYLISTS]
playlistGroupExists(store, id) == PlaylistGroupKey(id) \in DOMAIN store[DP1_PLAYLIST_GROUPS]
recordExists(store, kind, id) ==
    IF kind = "playlist" THEN playlistExists(store, id) ELSE playlistGroupExists(store, id)

\* kv.put(key, JSON.stringify(data))
writeToKV(store, ns, key, data) ==
    [store EXCEPT ![ns] = KvPut(@, key, JSONStringify(data))]

\* the requests a handler serves are bounded
MaxPosts == 2
PostBodies(kind) ==
    IF kind = "playlist"
    THEN {[id |-> id, items |-> <<[title |-> titleNewArt]>>] : id \in {playlistId1, playlistId2}}
    ELSE {[id |-> groupId1, title |-> titleArt, playlists |-> <<urlExternal>>]}

\* the handler awaits the existence check: 409 when the key of the ID
\* holds a value
postCheck(p, kind, validatedData) ==
    /\ posts[p].stage \in {"none", "done"}
    /\ posts[p].n < MaxPosts
    /\ posts' = [posts EXCEPT ![p] =
            IF recordExists(kv, kind, validatedData.id)
            THEN [stage |-> "done", n |-> @.n + 1, kind |-> kind,
                  id |-> validatedData.id, status |-> 409]
            ELSE [stage |-> "save", n |-> @.n + 1, kind |-> kind,
                  validatedData |-> validatedData]]
    /\ UNCHANGED <<req, returned, storeVars, listVars, playerVars, hashVars, verifyVars, fnVars, capsuleVars>>

\* the handler builds the record and awaits savePlaylist or
\* savePlaylistGroup, which is false when put() throws
postSave(p, randomSuffix, written) ==
    /\ posts[p].stage = "save"
    /\ LET kind == posts[p].kind
           record == IF kind = "playlist"
                     THEN createdPlaylist(posts[p].validatedData, randomSuffix, Now)
                     ELSE createdGroup(posts[p].validatedData, randomSuffix, Now)
       IN  /\ kv' = IF written
                    THEN writeToKV(kv, RecordNamespace(kind), RecordKey(kind, record.id), record)
                    ELSE kv
           /\ posts' = [posts EXCEPT ![p] =
                    [stage |-> "saved", n |-> @.n, kind |-> kind, id |-> record.id,
                     saved |-> written]]
    /\ UNCHANGED <<req, returned, pc, call, res, loc, pend, fetches, issued, calls>>
    /\ UNCHANGED <<listVars, playerVars, hashVars, verifyVars, fnVars, capsuleVars>>

\* 201 with the record, 500 when the save returned false
postRespond(p) ==
    /\ posts[p].stage = "saved"
    /\ posts' = [posts EXCEPT ![p] =
            [stage |-> "done", n |-> @.n, kind |-> @.kind, id |-> @.id,
             status |-> IF @.saved THEN 201 ELSE 500]]
    /\ UNCHANGED <<req, returned, storeVars, listVars, playerVars, hashVars, verifyVars, fnVars, capsuleVars>>

PostNext ==
    \E p \in Procs :
        \/ \E kind \in Kinds : \E validatedData \in PostBodies(kind) :
              postCheck(p, kind, validatedData)
        \/ \E randomSuffix \in SlugSuffixes : \E written \in BOOLEAN :
              postSave(p, randomSuffix, written)
        \/ postRespond(p)

PostSpec == Init /\ [][PostNext]_vars

(***************************************************************************)
(* generateSlug on its own: the titles of up to MaxTitleLen characters of  *)
(* a letter, a capital, a digit, a space and a hyphen, and a title longer  *)
(* than a slug may be; the function is called twice with the same title.   *)
(***************************************************************************)
MaxTitleLen == 2
TitleChars == {"a", "B", "7", " ", "-"}
RECURSIVE TitlesOfLen(_)
TitlesOfLen(n) ==
    IF n = 0 THEN {<<>>}
    ELSE {<<c>> \o t : c \in TitleChars, t \in TitlesOfLen(n - 1)}
LongTitle == [i \in 1..(MaxSlugLength + 1) |-> IF i % 2 = 0 THEN "A" ELSE "1"]
SlugTitles == UNION {TitlesOfLen(n) : n \in 0..MaxTitleLen} \cup {LongTitle}

SlugInit ==
    /\ StoreInit /\ ListInit /\ ApiInit /\ PlayerInit /\ HashInit /\ VerifyInit /\ CapsuleInit
    /\ fnArgs \in {[fn |-> "generateSlug", title |-> t] : t \in SlugTitles}
    /\ fnOut = NoResult

\* a call of generateSlug(title); the slug of the call before is kept
generateSlugCall ==
    /\ fnArgs.fn = "generateSlug"
    /\ ~(fnOut.returned /\ fnOut.again)
    /\ \E randomSuffix \in SlugSuffixes :
          fnOut' = [returned |-> TRUE,
                    slug |-> generateSlug(fnArgs.title, randomSuffix),
                    again |-> fnOut.returned,
                    before |-> IF fnOut.returned THEN fnOut.slug ELSE <<>>]
    /\ UNCHANGED <<storeVars, callerVars, hashVars, verifyVars, capsuleVars, fnArgs>>

SlugNext == generateSlugCall
SlugSpec == SlugInit /\ [][SlugNext]_vars

(***************************************************************************)
(* The player of the client.  Time is counted in seconds and kept relative *)
(* to the start of the item shown: elapsed is Date.now() -                 *)
(* itemStartRef.current.  A timer is [delay, n, current]: the seconds      *)
(* until it is due, the length of the playlist its callback closed over,   *)
(* and whether it is the timer of the effect that ran last (the one the    *)
(* cleanup of that effect clears).  A timer fires when it is due: time     *)
(* does not pass while a timer with no delay left is pending.              *)
(***************************************************************************)
DefaultDurationSeconds == 5
MaxDuration == 2
MaxPlaylistLen == 2
MaxLoads == 2

\* item.duration: missing, a string of digits, or a number
RawDurations ==
    {[kind |-> "missing", n |-> 0], [kind |-> "numeral", n |-> MaxDuration]}
        \cup {[kind |-> "number", n |-> n] : n \in 0..MaxDuration}
\* Number(item.duration) > 0: Number() of a missing value is NaN
IsPositiveNumber(d) == d.kind \in {"number", "numeral"} /\ d.n > 0
\* Number(item.duration) > 0 ? Number(item.duration) * 1000 : 5000, in seconds
Duration(item) ==
    IF IsPositiveNumber(item.duration) THEN item.duration.n ELSE DefaultDurationSeconds

ElapsedCap == (IF MaxDuration > DefaultDurationSeconds THEN MaxDuration
               ELSE DefaultDurationSeconds) + 1
Later(t) == IF t < ElapsedCap THEN t + 1 ELSE t

\* the items of a response: with a source that is a string or not
ItemInputs ==
    {[source |-> TRUE, duration |-> d] : d \in RawDurations}
        \cup {[source |-> FALSE, duration |-> [kind |-> "number", n |-> 1]]}
RECURSIVE ItemListsOfLen(_)
ItemListsOfLen(n) ==
    IF n = 0 THEN {<<>>}
    ELSE {<<i>> \o l : i \in ItemInputs, l \in ItemListsOfLen(n - 1)}
ItemLists == UNION {ItemListsOfLen(n) : n \in 0..MaxPlaylistLen}

\* items.filter(i => typeof i.source === 'string').map(i => ({...i, duration: ...}))
validateItems(items) ==
    LET kept == SelectSeq(items, LAMBDA i : i.source)
    IN  [k \in 1..Len(kept) |->
            [source |-> TRUE, duration |-> [kind |-> "number", n |-> Duration(kept[k])]]]

NothingSaved == [playlist |-> <<>>, index |-> 0, elapsed |-> 0]

\* the cleanup of the effect that ran last keeps its timer
keepTimers(timers) == [k \in 1..Len(timers) |-> [timers[k] EXCEPT !.current = FALSE]]
\* return () => clearTimeout(timer)
clearTimeout(timers) == SelectSeq(timers, LAMBDA t : ~t.current)

\* the effect of [playlist, index]: the cleanup of the run before, then,
\* when playlist[index] exists, a new timer and, in the page, the state
\* saved
Effect(pl, playlist, index, elapsed) ==
    IF index >= Len(playlist)
    THEN [pl EXCEPT !.playlist = playlist, !.index = index, !.elapsed = elapsed,
                    !.timers = clearTimeout(pl.timers)]
    ELSE LET remaining == Duration(playlist[index + 1]) - elapsed
         IN  [pl EXCEPT !.playlist = playlist, !.index = index, !.elapsed = elapsed,
                        !.timers = Append(clearTimeout(pl.timers),
                                          [delay |-> IF remaining > 0 THEN remaining ELSE 0,
                                           n |-> Len(playlist), current |-> TRUE]),
                        !.saved = IF pl.component = "Home"
                                  THEN [playlist |-> playlist, index |-> index,
                                        elapsed |-> elapsed]
                                  ELSE @]

\* the timers pending
Timers == IF player.mounted THEN player.timers ELSE <<>>

PlayerUnchanged == UNCHANGED <<storeVars, listVars, apiVars, hashVars, verifyVars, fnVars, capsuleVars>>

\* the page (Home) is opened, or opened again: the state saved is restored
\* and the timers of the page before are gone
mount ==
    /\ player.mounted => player.component = "Home"
    /\ LET saved == IF player.mounted THEN player.saved ELSE NothingSaved
           fresh == [mounted |-> TRUE, component |-> "Home", last |-> "mount",
                     playlist |-> <<>>, index |-> 0, elapsed |-> 0,
                     timers |-> <<>>, saved |-> saved,
                     loads |-> IF player.mounted THEN player.loads ELSE 0]
       IN  player' = IF saved = NothingSaved THEN fresh
                     ELSE Effect(fresh, saved.playlist, saved.index, saved.elapsed)
    /\ PlayerUnchanged

\* the component Player is mounted with a playlist, its items as they are
mountPlayer(items) ==
    /\ ~player.mounted
    /\ player' = Effect([mounted |-> TRUE, component |-> "Player", last |-> "mount",
                         playlist |-> <<>>, index |-> 0, elapsed |-> 0,
                         timers |-> <<>>, saved |-> NothingSaved, loads |-> 0],
                        items, 0, 0)
    /\ PlayerUnchanged

\* send, in the page: a response with a playlist whose valid items are not
\* empty is loaded
load(items) ==
    /\ player.mounted
    /\ player.component = "Home"
    /\ player.loads < MaxLoads
    /\ LET valid == validateItems(items)
           sent == [player EXCEPT !.loads = @ + 1, !.last = "load"]
       IN  player' = IF Len(valid) > 0 THEN Effect(sent, valid, 0, 0) ELSE sent
    /\ PlayerUnchanged

\* the callback of the k-th timer: itemStartRef.current = Date.now();
\* setIndex(i => (i + 1) % playlist.length); the effect runs again when
\* the index has changed
fire(k) ==
    /\ k \in 1..Len(Timers)
    /\ player.timers[k].delay = 0
    /\ LET timer == player.timers[k]
           rest == [player EXCEPT !.timers = SubSeq(@, 1, k - 1) \o SubSeq(@, k + 1, Len(@)),
                                  !.last = "fire"]
           next == (player.index + 1) % timer.n
       IN  player' = IF next = player.index
                     THEN [rest EXCEPT !.elapsed = 0]
                     ELSE Effect(rest, player.playlist, next, 0)
    /\ PlayerUnchanged

\* a second passes
tick ==
    /\ player.mounted
    /\ \A k \in 1..Len(player.timers) : player.timers[k].delay > 0
    /\ player' = [player EXCEPT
                    !.last = "tick",
                    !.elapsed = Later(@),
                    !.saved = IF @ = NothingSaved THEN @ ELSE [@ EXCEPT !.elapsed = Later(@)],
                    !.timers = [k \in 1..Len(@) |-> [@[k] EXCEPT !.delay = @ - 1]]]
    /\ PlayerUnchanged

PlayerNext ==
    \/ mount
    \/ \E items \in ItemLists : mountPlayer(items)
    \/ \E items \in ItemLists : load(items)
    \/ \E k \in 1..Len(Timers) : fire(k)
    \/ tick

PlayerSpec == Init /\ [][PlayerNext]_vars

\* the parent of the component Player renders it with another playlist: the
\* component keeps its index and its itemStartRef, and the effect of
\* [playlist, index] runs again
rerender(items) ==
    /\ player.mounted
    /\ player.component = "Player"
    /\ player.loads < MaxLoads
    /\ items # player.playlist
    /\ player' = Effect([player EXCEPT !.loads = @ + 1, !.last = "props"],
                        items, player.index, player.elapsed)
    /\ PlayerUnchanged

PlayerPropsNext ==
    \/ PlayerNext
    \/ \E items \in ItemLists : rerender(items)

PlayerPropsSpec == Init /\ [][PlayerPropsNext]_vars
\* a second passes, and a timer that is due fires
PlayerFairSpec ==
    /\ PlayerSpec
    /\ WF_vars(tick)
    /\ WF_vars(\E k \in 1..Len(Timers) : fire(k))

(***************************************************************************)
(* Properties.                                                             *)
(***************************************************************************)
\* every operation the call of p issued has been applied: p is about to
\* return true from `op`
Completed(p, op) == pc[p] = "commit" /\ pend[p] = <<>> /\ call[p].op = op

MemberIds(store, groupId) == {k[3] : k \in MemberKeys(store, groupId)}
ResolvedIds(p) == {res[p][i].id : i \in 1..Len(res[p])}

\* C1: when a savePlaylistGroup of non-overlapping calls has completed, the
\* membership keys of the group are exactly the playlist IDs its `playlists`
\* resolved to; no entry of an earlier version of the group is left
C1_MembershipIsCurrentList ==
    \A p \in Procs :
        Completed(p, "savePlaylistGroup") =>
            MemberIds(kv, call[p].arg.id) = ResolvedIds(p)

\* C2: a group with a URL that failed to resolve or validate never gets past
\* the resolution: the call issues no put and no delete, and the step that
\* ends it returns (false) and leaves both stores as they are
C2_NothingIssued ==
    \A p \in Procs :
        (call[p].op = "savePlaylistGroup" /\ SomeInvalid(p)) =>
            /\ pc[p] = "resolve"
            /\ issued[p] = 0
            /\ pend[p] = <<>>
C2_ReturnsFalse ==
    \A p \in Procs :
        (call[p].op = "savePlaylistGroup" /\ SomeInvalid(p) /\ pc'[p] # pc[p]) =>
            /\ pc'[p] = "idle"
            /\ kv' = kv
C2_RejectedGroupWritesNothing == []C2_NothingIssued /\ [][C2_ReturnsFalse]_vars

\* a group of which one URL resolved to a playlist and another one failed
C2_Witness ==
    \E p \in Procs :
        /\ call[p].op = "savePlaylistGroup"
        /\ AllResolved(p)
        /\ \E i, j \in 1..Len(res[p]) : res[p][i].st = "null" /\ res[p][j].st = "ok"

\* C3 as claimed: a URL of a self-hosted host is never fetched, and every URL
\* of another host is fetched exactly once
C3_FetchOncePerExternalUrl ==
    \A p \in Procs :
        call[p].op = "savePlaylistGroup" =>
            \A i \in 1..Len(call[p].arg.playlists) :
                fetches[p][i] =
                    IF isSelfHostedUrl(call[p].arg.playlists[i]) THEN 0 ELSE 1

\* C3 as amended: a URL of a self-hosted host is never fetched; an http or
\* https URL of another host is fetched exactly once; a URL of another scheme
\* is rejected without a fetch
C3_FetchOncePerExternalHttpUrl ==
    \A p \in Procs :
        call[p].op = "savePlaylistGroup" =>
            \A i \in 1..Len(call[p].arg.playlists) :
                LET url == call[p].arg.playlists[i]
                IN  fetches[p][i] =
                        IF isSelfHostedUrl(url) \/ ~IsHttpUrl(url) THEN 0 ELSE 1

\* a saved group of a self-hosted URL, resolved in the local store, and an
\* external one
C3_Witness ==
    \E p \in Procs :
        /\ Completed(p, "savePlaylistGroup")
        /\ \E i, j \in 1..Len(res[p]) :
              /\ isSelfHostedUrl(call[p].arg.playlists[i])
              /\ ~isSelfHostedUrl(call[p].arg.playlists[j])
              /\ fetches[p][j] = 1

\* C4: when an update of a stored group has completed, every playlist that was
\* in the old membership index and is in the new list has its entry, whatever
\* the order in which the store applied the operations of the call
C4_KeptPlaylistStaysIndexed ==
    \A p \in Procs :
        (Completed(p, "savePlaylistGroup") /\ loc[p].stage = "found") =>
            \A i \in 1..Len(loc[p].existingIndexes) :
                loc[p].existingIndexes[i][3] \in ResolvedIds(p) =>
                    Has(DP1_PLAYLISTS, loc[p].existingIndexes[i])

\* C5: when two overlapping saves of one group ID with different lists have
\* both completed, the stored record is one of the two inputs and the
\* membership index is exactly the set that input resolved to
C5_LastWriterWins ==
    \A p, q \in Procs :
        ( /\ p # q
          /\ Completed(p, "savePlaylistGroup")
          /\ Completed(q, "savePlaylistGroup")
          /\ call[p].arg.id = call[q].arg.id
          /\ call[p].arg.playlists # call[q].arg.playlists ) =>
            \E w \in {p, q} :
                /\ Has(DP1_PLAYLIST_GROUPS, GroupIdKey(call[w].arg.id))
                /\ Get(DP1_PLAYLIST_GROUPS, GroupIdKey(call[w].arg.id))
                        = JSONStringify(call[w].arg)
                /\ MemberIds(kv, call[w].arg.id) = ResolvedIds(w)

\* C6: when deletePlaylistGroup(G) has completed, the store holds neither the
\* record of G, nor its slug pointer, nor a membership key of G
C6_GroupLeavesNoEntry ==
    \A p \in Procs :
        Completed(p, "deletePlaylistGroup") =>
            /\ ~Has(DP1_PLAYLIST_GROUPS, GroupIdKey(call[p].arg.id))
            /\ ~Has(DP1_PLAYLIST_GROUPS, GroupSlugKey(call[p].arg.slug))
            /\ MemberKeys(kv, call[p].arg.id) = {}

\* the identifiers a lookup is asked for: IDs, slugs, a slug of the shape of a
\* UUID, an ID that is no UUID, and a slug nothing was saved under
Identifiers ==
    {playlistId1, playlistId2, playlistId3, groupId1, playlistSlug1, playlistSlug2,
     playlistSlug3, uuidShapedSlug, groupSlug1, missingSlug, nonUuidPlaylist.id}

\* what a lookup of x has to read and to return in namespace ns
RoutedByPattern(r, ns, idPrefix, slugPrefix, x) ==
    LET idKey == <<idPrefix, x>>
        slugKey == <<slugPrefix, x>>
    IN  IF IsUuid(x)
        THEN /\ r.reads = <<idKey>>
             /\ r.value = IF Has(ns, idKey) THEN JSONParse(Get(ns, idKey)) ELSE Null
        ELSE IF ~Has(ns, slugKey)
             THEN r.reads = <<slugKey>> /\ r.value = Null
             ELSE LET pointed == <<idPrefix, Get(ns, slugKey)>>
                  IN  /\ r.reads = <<slugKey, pointed>>
                      /\ r.value = IF Has(ns, pointed)
                                   THEN JSONParse(Get(ns, pointed)) ELSE Null

\* C7: a lookup by ID or slug of an identifier of the UUID pattern reads the
\* ID record only; of any other identifier it reads the slug pointer and then
\* the ID record the pointer names; it returns null when what it reads is
\* absent; the same for playlists and for groups
C7_LookupRouting ==
    \A x \in Identifiers :
        /\ RoutedByPattern(getPlaylistByIdOrSlug(kv, x), DP1_PLAYLISTS,
                           PLAYLIST_ID_PREFIX, PLAYLIST_SLUG_PREFIX, x)
        /\ RoutedByPattern(getPlaylistGroupByIdOrSlug(kv, x), DP1_PLAYLIST_GROUPS,
                           PLAYLIST_GROUP_ID_PREFIX, PLAYLIST_GROUP_SLUG_PREFIX, x)

\* a playlist found by its ID and by its slug, a stored group, and a slug
\* pointer whose record is gone
C7_Witness ==
    /\ getPlaylistByIdOrSlug(kv, playlistId1).value = testPlaylist1
    /\ getPlaylistByIdOrSlug(kv, playlistSlug1).value = testPlaylist1
    /\ getPlaylistGroupByIdOrSlug(kv, groupSlug1).value # Null
    /\ \E x \in Identifiers :
          /\ Has(DP1_PLAYLISTS, PlaylistSlugKey(x))
          /\ getPlaylistByIdOrSlug(kv, x).value = Null

SlugChars(s) == \A i \in 1..Len(s) : s[i] \in Letters \cup Digits \cup {"-"}

FoundByIdAndSlug(found(_, _), x) ==
    found(kv, x.id).value = x /\ found(kv, x.slug).value = x

\* C8 as claimed: when a save of a playlist or group x of a UUID id and a slug
\* of letters, digits and hyphens has completed, with no other call
\* overlapping, the lookups of x.id and of x.slug both return x
C8_RoundTrip ==
    \A p \in Procs :
        LET x == call[p].arg
        IN  /\ (Completed(p, "savePlaylist") /\ IsUuid(x.id) /\ SlugChars(x.slug))
                    => FoundByIdAndSlug(getPlaylistByIdOrSlug, x)
            /\ (Completed(p, "savePlaylistGroup") /\ IsUuid(x.id) /\ SlugChars(x.slug))
                    => FoundByIdAndSlug(getPlaylistGroupByIdOrSlug, x)

\* C8 as amended: the same, for a slug that is not of the UUID pattern
C8_RoundTripOfNonUuidSlug ==
    \A p \in Procs :
        LET x == call[p].arg
        IN  /\ ( /\ Completed(p, "savePlaylist")
                 /\ IsUuid(x.id) /\ SlugChars(x.slug) /\ ~IsUuid(x.slug) )
                    => FoundByIdAndSlug(getPlaylistByIdOrSlug, x)
            /\ ( /\ Completed(p, "savePlaylistGroup")
                 /\ IsUuid(x.id) /\ SlugChars(x.slug) /\ ~IsUuid(x.slug) )
                    => FoundByIdAndSlug(getPlaylistGroupByIdOrSlug, x)

\* a completed save of a playlist over another one of the same ID
C8_Witness ==
    \E p \in Procs :
        /\ Completed(p, "savePlaylist")
        /\ call[p].arg = testPlaylist1
        /\ Has(DP1_PLAYLIST_GROUPS, GroupSlugKey(groupSlug1))

ResultsFor(path) == {k \in 1..Len(hret.results) : hret.results[k].Path = path}

\* C9: the pool never comes to a stop before it has returned; it returns only
\* when every worker it started has exited, with exactly one result for each
\* job; a scan that finds no job returns no result and starts no worker
C9_PoolReturnsOneResultPerJob ==
    /\ hpc = "returned" \/ ENABLED HashNext
    /\ (hpc = "returned" /\ dirPath.stat = "dir") =>
          /\ \A i \in 1..WorkerCap : workers[i].pc \in {"none", "exited"}
          /\ Len(hret.results) = Len(fileJobs)
          /\ \A j \in 1..Len(fileJobs) : Cardinality(ResultsFor(fileJobs[j].RelPath)) = 1
          /\ fileJobs = <<>> => (wg = 0 /\ \A i \in 1..WorkerCap : workers[i].pc = "none")

\* C10: the process never ends on a failing entry; the scan of a directory
\* returns without error and with one result for every entry that is no
\* subdirectory: the digest for a file that was read, a non-empty Error for a
\* file that was not and for an entry the walk reported an error for
C10_FailureIsRecordedOnTheEntry ==
    /\ hpc # "crashed"
    /\ (hpc = "returned" /\ dirPath.stat = "dir") =>
          /\ hret.err = ""
          /\ \A path \in 1..Len(dirPath.entries) :
                LET kind == dirPath.entries[path]
                IN  kind # "dir" =>
                      /\ Cardinality(ResultsFor(path)) = 1
                      /\ \A k \in ResultsFor(path) :
                            IF kind = "file"
                            THEN /\ hret.results[k].Error = ""
                                 /\ hret.results[k].SHA256 = Digest(path)
                            ELSE hret.results[k].Error # ""

\* the result of the entry at `path` of the directory under scan
ResultOfEntry(dir, path) ==
    HashResult(path, computeFileHash(dir, path).hash, computeFileHash(dir, path).err)

RECURSIVE ResultsFrom(_, _)
ResultsFrom(dir, path) ==
    IF path > Len(dir.entries) THEN <<>>
    ELSE IF dir.entries[path] = "dir" THEN ResultsFrom(dir, path + 1)
    ELSE <<ResultOfEntry(dir, path)>> \o ResultsFrom(dir, path + 1)

\* C11: the list ComputeDirectoryHashes returns is in ascending order of path
\* and is a function of the directory's contents alone: the same list under
\* every schedule of the workers and every order in which results arrive
C11_SortedAndScheduleIndependent ==
    (hpc = "returned" /\ dirPath.stat = "dir") =>
        /\ \A i, j \in 1..Len(hret.results) :
              i < j => hret.results[i].Path < hret.results[j].Path
        /\ hret.results = ResultsFrom(dirPath, 1)

\* a scan that returned three results which the collector received in another
\* order than that of their paths
C11_Witness ==
    /\ hpc = "returned"
    /\ Len(hret.results) = 3
    /\ results # hret.results

\* the worker goroutines that are running
LiveWorkers == {i \in 1..WorkerCap : workers[i].pc \in {"recv", "send"}}

C12_PoolSize ==
    hpc = "idle" => \A numCPU \in 1..MaxCPU :
        (ComputeDirectoryHashes(dirPath', numCPU) /\ Len(fileJobs') > 0) =>
            /\ numWorkers' >= 1
            /\ numWorkers' <= numCPU
            /\ numWorkers' <= WorkerCap
            /\ numWorkers' <= Len(fileJobs')
C12_LiveWorkersWithinPool ==
    /\ Cardinality(LiveWorkers) <= numWorkers
    /\ Cardinality({i \in 1..WorkerCap : workers[i].pc # "none"}) <= numWorkers

\* C12: the size of the pool is at least 1 for a scan that found a file and at
\* most the number of CPUs, the cap and the number of files; the workers
\* running at any moment, each of which has at most one file open, never
\* outnumber the pool
C12_WorkersBounded == [][C12_PoolSize /\ C12_LiveWorkersWithinPool']_vars

\* the cap decides the size of the pool: more files and more CPUs than the
\* cap, and every worker of the pool running
C12_Witness ==
    /\ Len(fileJobs) > WorkerCap
    /\ numWorkers = WorkerCap
    /\ Cardinality(LiveWorkers) = WorkerCap


\* the lower-cased entries of a list, letter by letter
LowerCased(list) ==
    {[i \in 1..Len(list[k]) |->
        CASE list[k][i] = "A" -> "a" [] list[k][i] = "B" -> "b" [] list[k][i] = "C" -> "c"
          [] list[k][i] = "D" -> "d" [] list[k][i] = "E" -> "e" [] list[k][i] = "F" -> "f"
          [] OTHER -> list[k][i]] : k \in 1..Len(list)}
Elems(list) == {list[i] : i \in 1..Len(list)}
SortedNoDuplicates(list) ==
    \A i, j \in 1..Len(list) : i < j => StrLess(list[i], list[j])

FilesOf(dir) == {path \in 1..Len(dir.entries) : dir.entries[path] = "file"}
AllReadable(dir) == \A path \in 1..Len(dir.entries) : dir.entries[path] \in {"file", "dir"}
\* the files whose hashes the expected list names
ExpectedFiles == {path \in 1..(MaxEntries + 1) : Digest(path) \in LowerCased(expectedHashes)}

NoValidEntry(input) ==
    \A part \in Elems(FieldsFunc(input, <<>>, <<>>)) :
        ~ValidateHashFormat(Trim(TrimSpace(part), {"[", "]", "(", ")", "{", "}"}))

\* C15: when a --hashes value was supplied and no entry of it has the format
\* of a hash, validateCapsule returns an error, in directory mode and in
\* hash-list mode alike, and neither scans the directory nor compares
\* anything.
C15_NoValidHashIsAnError ==
    (cpc # "idle" /\ hashesInput # NoString /\ NoValidEntry(hashesInput)) =>
        /\ cpc = "done"
        /\ cret.err # ""
        /\ ~vret.returned
        /\ hpc = "idle"

\* hash-list mode: the playlist names hashes, the --hashes value holds two
\* entries and neither is a hash
C15_Witness ==
    /\ cpc = "done"
    /\ capsulePlaylist # NoPlaylist /\ Len(expectedHashes) > 0
    /\ directoryPath = NoPath
    /\ Len(FieldsFunc(hashesInput, <<>>, <<>>)) = 2
    /\ NoValidEntry(hashesInput)
    /\ cret.err = "no valid hashes found in --hashes input"


\* C16: every listing operation asks the store for at most PageCap keys (the
\* program's 100) and returns at most PageCap items, whatever limit the
\* caller passes or omits.
C16_AtMostPageCapPerCall ==
    page # NoPage => (page.requested <= PageCap /\ Len(page.items) <= PageCap)


\* the records stored under the prefix a listing operation lists
RecordsUnder(op, arg) ==
    IF op = "listAllPlaylists" THEN StoredPlaylists(kv)
    ELSE IF op = "listAllPlaylistGroups" THEN StoredGroups(kv)
    ELSE {JSONParse(Get(DP1_PLAYLISTS, PlaylistIdKey(k[3]))) :
            k \in {m \in MemberKeys(kv, arg) : Has(DP1_PLAYLISTS, PlaylistIdKey(m[3]))}}

\* C17: with no write since the first page, the pages listed so far hold
\* records stored under the prefix, none of them twice; a page holds at most
\* `limit` items; a cursor is returned, and hasMore is true, exactly when
\* records remain to be listed, so that the pages up to the one without
\* cursor hold every record exactly once.
C17_PagesCoverEveryRecordOnce ==
    page # NoPage =>
        /\ \A i, j \in 1..Len(listed) : i < j => listed[i] # listed[j]
        /\ Elems(listed) \subseteq RecordsUnder(page.op, page.arg)
        /\ page.options.limit > 0 => Len(page.items) <= page.options.limit
        /\ page.hasMore <=> page.cursor # NoCursor
        /\ page.hasMore <=> Elems(listed) # RecordsUnder(page.op, page.arg)


\* the value with the members of every object, at any depth, in ascending
\* order of their keys
RECURSIVE KeySorted(_), KeySortedMembers(_, _), KeySortedItems(_)
KeySortedMembers(v, left) ==
    IF left = {} THEN <<>>
    ELSE LET i == CHOOSE j \in left : \A o \in left \ {j} : StrLess(v.val[j][1], v.val[o][1])
         IN  <<<<v.val[i][1], KeySorted(v.val[i][2])>>>> \o KeySortedMembers(v, left \ {i})
KeySortedItems(items) ==
    IF items = <<>> THEN <<>>
    ELSE <<KeySorted(Head(items))>> \o KeySortedItems(Tail(items))
KeySorted(v) ==
    CASE v.t = "object" -> JObject(KeySortedMembers(v, 1..Len(v.val)))
      [] v.t = "array" -> JArray(KeySortedItems(v.val))
      [] OTHER -> v

\* C18: the canonical bytes of a value are those of the value with the keys
\* of every object, at any depth, put in ascending order, so that two values
\* equal up to the order of keys have the same bytes (and the same SHA-256);
\* a repeated call on the same value returns the same bytes.
C18_Deterministic ==
    (fnArgs.fn = "canonicalizeJSON" /\ fnOut.returned) =>
        /\ fnOut.bytes = canonicalizeJSON(KeySorted(fnArgs.obj))
        /\ fnOut.again => fnOut.bytes = fnOut.before

\* an object whose keys are not in order, with an object inside whose keys are
\* not in order either, canonicalized twice
C18_Witness ==
    /\ fnArgs.fn = "canonicalizeJSON" /\ fnOut.returned /\ fnOut.again
    /\ fnArgs.obj.t = "object" /\ Len(fnArgs.obj.val) = 2
    /\ StrLess(fnArgs.obj.val[2][1], fnArgs.obj.val[1][1])
    /\ fnArgs.obj.val[1][2].t = "object" /\ Len(fnArgs.obj.val[1][2].val) = 2
    /\ StrLess(fnArgs.obj.val[1][2].val[2][1], fnArgs.obj.val[1][2].val[1][1])


Count(c, str) == Cardinality({i \in 1..Len(str) : str[i] = c})

\* C19: the canonical bytes end with a line feed, hold no other line feed
\* and no carriage return.
C19_EndsWithOneLF ==
    (fnArgs.fn = "canonicalizeJSON" /\ fnOut.returned) =>
        /\ fnOut.bytes[Len(fnOut.bytes)] = "\n"
        /\ Count("\n", fnOut.bytes) = 1
        /\ Count("\r", fnOut.bytes) = 0

\* the items of the arrays of a value, at any depth
RECURSIVE ArraysIn(_), ArraysInAll(_)
ArraysInAll(values) ==
    IF values = <<>> THEN {} ELSE ArraysIn(Head(values)) \cup ArraysInAll(Tail(values))
ArraysIn(v) ==
    CASE v.t = "object" -> ArraysInAll([i \in 1..Len(v.val) |-> v.val[i][2]])
      [] v.t = "array" -> {v.val} \cup ArraysInAll(v.val)
      [] OTHER -> {}

\* the bytes of a value written as it stands: members and items in their
\* order, no character between them but the commas and colons
RECURSIVE Written(_), WrittenAll(_, _)
WrittenAll(parts, i) ==
    IF i > Len(parts) THEN <<>>
    ELSE (IF i > 1 THEN <<",">> ELSE <<>>) \o parts[i] \o WrittenAll(parts, i + 1)
Written(v) ==
    CASE v.t = "object" ->
            <<"{">> \o WrittenAll([i \in 1..Len(v.val) |->
                                     MarshalString(v.val[i][1]) \o <<":">> \o Written(v.val[i][2])], 1)
                   \o <<"}">>
      [] v.t = "array" -> <<"[">> \o WrittenAll([i \in 1..Len(v.val) |-> Written(v.val[i])], 1) \o <<"]">>
      [] v.t = "string" -> MarshalString(v.val)
      [] OTHER -> v.val

Contains(str, part) ==
    \E i \in 0..(Len(str) - Len(part)) : SubSeq(str, i + 1, i + Len(part)) = part

\* C20: for every array of the input, at any depth, the output holds its
\* items in their original order, each written with the keys of its objects
\* in ascending order.
C20_ArrayOrderKept ==
    (fnArgs.fn = "canonicalizeJSON" /\ fnOut.returned) =>
        \A items \in ArraysIn(fnArgs.obj) :
            Contains(fnOut.bytes, Written(JArray(KeySortedItems(items))))

\* an array, inside an object, of two different objects, the first with its
\* keys out of order
C20_Witness ==
    /\ fnArgs.fn = "canonicalizeJSON" /\ fnOut.returned
    /\ fnArgs.obj.t = "object" /\ Len(fnArgs.obj.val) = 1
    /\ fnArgs.obj.val[1][2].t = "array" /\ Len(fnArgs.obj.val[1][2].val) = 2
    /\ fnArgs.obj.val[1][2].val[1] # fnArgs.obj.val[1][2].val[2]
    /\ Len(fnArgs.obj.val[1][2].val[1].val) = 2
    /\ StrLess(fnArgs.obj.val[1][2].val[1].val[2][1], fnArgs.obj.val[1][2].val[1].val[1][1])
    /\ Len(fnArgs.obj.val[1][2].val[2].val) = 2

\* the raw object with both signature fields removed
DeleteSignatureFields(obj) == Delete(Delete(obj, kSignature), kSignatures)
SignableContentReturned == fnOut.returned /\ fnOut.op = "GetSignableContent"

\* C21: the signable content of a playlist is that of every playlist that
\* differs from it only in `signature` and `signatures`, and names neither
\* field.
C21_SignableContentIgnoresSignatureFields ==
    SignableContentReturned =>
        /\ \A other \in RawPlaylists :
               DeleteSignatureFields(UnmarshalMap(other))
                       = DeleteSignatureFields(UnmarshalMap(fnArgs.rawData))
                   => GetSignableContent(other) = fnOut.bytes
        /\ ~Contains(fnOut.bytes, MarshalString(kSignature))
        /\ ~Contains(fnOut.bytes, MarshalString(kSignatures))

CanonicalReturned == fnOut.returned /\ fnOut.op = "CanonicalizePlaylist"
\* the members of the raw object that are no signature field
ContentMembers(rawData) == DeleteSignatureFields(UnmarshalMap(rawData)).val

\* C22: the canonical form of a parsed playlist holds every member of the
\* raw object that is no signature field, with its value in canonical form,
\* and for a playlist without `signatures` it is the canonical form of the
\* raw object itself.
C22_NothingDropped ==
    CanonicalReturned =>
        /\ \A i \in 1..Len(ContentMembers(fnArgs.rawData)) :
               LET m == ContentMembers(fnArgs.rawData)[i]
               IN  Contains(fnOut.bytes,
                            MarshalString(m[1]) \o <<":">> \o canonicalizeJSON(m[2]))
        /\ ~HasKey(fnArgs.rawData, kSignatures)
               => fnOut.bytes = canonicalizeJSON(UnmarshalMap(fnArgs.rawData))

ValidatePlaylistReturned == fnOut.returned /\ fnOut.op = "validatePlaylist"

\* C23: a playlist whose `signatures` satisfy the trust policy is accepted,
\* whatever its legacy `signature` is: missing, malformed or not verifying.
C23_SignaturesDecide ==
    (/\ ValidatePlaylistReturned
     /\ fnOut.pubkeyHex = TrustedPubkey
     /\ HasKey(fnArgs.playlist, kSignatures)
     /\ verifyChain(fnArgs.playlist).ok) => fnOut.err = ""

VerifyChainReturned == fnOut.returned /\ fnOut.op = "verifyChain"
\* the content of a playlist is the content that was signed, up to the order
\* of its members
ContentUnchanged(playlist) ==
    KeySorted(Delete(Delete(UnmarshalMap(playlist), kSignature), kSignatures))
        = KeySorted(JObject(ContentSigned))
\* the records of a playlist that are valid signatures of its content
ValidRecords(playlist) ==
    {i \in 1..Len(SignaturesOf(playlist)) :
        /\ ContentUnchanged(playlist)
        /\ SignaturesOf(playlist)[i] \in {SignatureRecord(r, "valid") : r \in Roles}}
RoleOf(playlist, i) == ValueAt(SignaturesOf(playlist)[i], kRole).val

\* C24: under the default policy verifyChain accepts exactly when some valid
\* signature has the role curator or feed and, if any signature declares the
\* role agent, some valid signature has the role agent; the roles it reports
\* are roles of valid signatures.
C24_DefaultPolicy ==
    VerifyChainReturned =>
        LET p == fnArgs.playlist
        IN  /\ fnOut.result.ok <=>
                   /\ \E i \in ValidRecords(p) : RoleOf(p, i) \in {RoleCurator, RoleFeed}
                   /\ (\E i \in 1..Len(SignaturesOf(p)) : RoleOf(p, i) = RoleAgent)
                          => \E i \in ValidRecords(p) : RoleOf(p, i) = RoleAgent
            /\ fnOut.result.roles = {RoleOf(p, i) : i \in ValidRecords(p)}

\* a chain accepted although one of its two signatures is invalid
C24_Witness ==
    /\ VerifyChainReturned
    /\ fnOut.result.ok
    /\ Len(fnOut.result.errors) = 2
    /\ \E i \in 1..2 : fnOut.result.errors[i] # ""

\* C25: when the content of a playlist has changed since it was signed, no
\* record's payload_hash is the hash of its canonical form, and verifyChain
\* fails with PayloadHashMismatch for every record, whatever the keys and
\* the signatures are.
C25_ChangedContentIsRejected ==
    (VerifyChainReturned /\ ~ContentUnchanged(fnArgs.playlist)) =>
        /\ ~fnOut.result.ok
        /\ fnOut.result.roles = {}
        /\ \A i \in 1..Len(fnOut.result.errors) :
               /\ ValueAt(SignaturesOf(fnArgs.playlist)[i], kPayloadHash).val
                      # PayloadHashOf(fnArgs.playlist)
               /\ fnOut.result.errors[i] = "PayloadHashMismatch"

\* a changed playlist with a record whose key cannot be resolved and a
\* record whose signature would verify
C25_Witness ==
    /\ VerifyChainReturned
    /\ ~ContentUnchanged(fnArgs.playlist)
    /\ Len(fnOut.result.errors) = 2
    /\ ValueAt(SignaturesOf(fnArgs.playlist)[1], kKid).val = KidUnknown
    /\ SignaturesOf(fnArgs.playlist)[2] = SignatureRecord(RoleCurator, "valid")

\* the save of a PUT has completed: every write it issued is in the store
PutCompleted ==
    /\ req.stage = "save"
    /\ req.method = "PUT"
    /\ Completed(ApiHandler, IF req.kind = "playlist" THEN "savePlaylist" ELSE "savePlaylistGroup")

\* C26: after a successful PUT of an existing playlist or playlist group the
\* record stored under the ID it had before has that ID and the `created` it
\* had before, carries a slug generateSlug made of the title of the request,
\* and is what a lookup by that ID returns
C26_UpdateKeepsIdentity ==
    PutCompleted =>
        LET found == StoredRecord(req.kind, req.existing.id)
            title == IF req.kind = "playlist" THEN PlaylistTitle(req.validatedData)
                     ELSE req.validatedData.title
        IN  /\ found # Null
            /\ found = call[ApiHandler].arg
            /\ found.id = req.existing.id
            /\ Created(req.existing) # 0 => found.created = Created(req.existing)
            /\ \E randomSuffix \in SlugSuffixes : found.slug = generateSlug(title, randomSuffix)
C26_Witness ==
    /\ PutCompleted
    /\ Created(req.existing) # 0
    /\ StoredRecord(req.kind, req.existing.id).slug # req.existing.slug

ErrNeitherGiven == "either --playlist or --path must be provided for capsule validation"
ErrHashesRequired ==
    "--hashes must be provided when using --path without a playlist containing repro.assetsSHA256"
\* the playlist given supplies asset hashes
SuppliesHashes(pl) == pl.text = "valid" /\ Len(ExtractAssetHashes(pl.Items)) > 0
\* no scan of a directory was started and no comparison was made
NothingHashedOrCompared == hpc = "idle" /\ hret = NoReturn /\ vret = NoResult
NeitherGivenExactly ==
    (cret.err = ErrNeitherGiven) <=> (capsulePlaylist = NoPlaylist /\ directoryPath = NoPath)

\* C27 as stated: the command returns the error "either --playlist or --path
\* must be provided" exactly when both are empty; with --path, without
\* --hashes and without a playlist that supplies asset hashes it returns the
\* error requiring --hashes; in both cases nothing is hashed or compared
C27_FlagErrors ==
    cret.returned =>
        /\ NeitherGivenExactly
        /\ (directoryPath # NoPath /\ hashesInput = NoString /\ ~SuppliesHashes(capsulePlaylist))
              => cret.err = ErrHashesRequired
        /\ cret.err \in {ErrNeitherGiven, ErrHashesRequired} => NothingHashedOrCompared

\* C27, amended: the error requiring --hashes is returned when --path is
\* given without --hashes and the playlist is absent or parses and supplies
\* no asset hashes; a playlist that does not parse is reported first
C27_FlagErrorsOfParsedInput ==
    cret.returned =>
        /\ NeitherGivenExactly
        /\ (/\ directoryPath # NoPath
            /\ hashesInput = NoString
            /\ capsulePlaylist.text # "invalid"
            /\ ~SuppliesHashes(capsulePlaylist))
              => cret.err = ErrHashesRequired
        /\ cret.err \in {ErrNeitherGiven, ErrHashesRequired} => NothingHashedOrCompared
C27_Witness ==
    /\ cret.returned
    /\ cret.err = ErrHashesRequired
    /\ capsulePlaylist.text = "valid"
    /\ directoryPath.stat = "dir"

\* C28: two calls of generateSlug with the same title return different slugs
C28_SlugsDiffer ==
    (fnArgs.fn = "generateSlug" /\ fnOut.returned /\ fnOut.again) =>
        fnOut.slug # fnOut.before

\* the duration the claim gives an item: its own, 5 seconds when it is
\* missing or not positive
ClaimedDuration(item) ==
    IF item.duration.kind \in {"number", "numeral"} /\ item.duration.n >= 1
    THEN item.duration.n ELSE 5
AtMostOneTimer == Len(Timers) <= 1
\* a step in which an advance timer fires
FireStep == player' # player /\ player'.last = "fire"
\* the timer fires no earlier than the duration of the item shown, leaves
\* the playlist alone and moves to the next item in order; when the item
\* shown changes, the one before was shown for just its duration
AdvanceInOrder ==
    FireStep =>
        LET n == Len(player.playlist)
            item == player.playlist[player.index + 1]
        IN  /\ n > 0
            /\ player'.playlist = player.playlist
            /\ player'.index = (player.index + 1) % n
            /\ player.elapsed >= ClaimedDuration(item)
            /\ player'.index # player.index => player.elapsed = ClaimedDuration(item)
            /\ player'.elapsed = 0
\* item i of the playlist loaded is shown again and again
ShownAgainAndAgain ==
    \A i \in 0..(MaxPlaylistLen - 1) :
        []<>(~player.mounted \/ i >= Len(player.playlist) \/ player.index = i)

Quiescent == \A p \in Procs : pc[p] = "idle"
\* the slug pointers of a store, and the ID records they should lead to
SlugPointersSound(ns, idPrefix, slugPrefix) ==
    \A key \in {k \in DOMAIN kv[ns] : k[1] = slugPrefix} :
        LET id == kv[ns][key]
        IN  /\ <<idPrefix, id>> \in DOMAIN kv[ns]
            /\ JSONParse(kv[ns][<<idPrefix, id>>]).slug = key[2]

\* C30: after any sequence of savePlaylist, savePlaylistGroup, deletePlaylist
\* and deletePlaylistGroup calls every slug pointer names an ID whose record
\* exists and has the slug of the pointer; no pointer of a superseded slug
\* is left
C30_SlugPointersSound ==
    Quiescent =>
        /\ SlugPointersSound(DP1_PLAYLISTS, PLAYLIST_ID_PREFIX, PLAYLIST_SLUG_PREFIX)
        /\ SlugPointersSound(DP1_PLAYLIST_GROUPS, PLAYLIST_GROUP_ID_PREFIX,
                             PLAYLIST_GROUP_SLUG_PREFIX)

\* all the membership keys of the store
AllMemberKeys ==
    {k \in DOMAIN kv[DP1_PLAYLISTS] : Len(k) = 3 /\ k[1] = PLAYLIST_BY_GROUP_PREFIX}
\* the playlists a listing of the group finds: those of the membership keys
\* whose record is stored
ListedOfGroup(groupId) ==
    {k \in MemberKeys(kv, groupId) : Has(DP1_PLAYLISTS, PlaylistIdKey(k[3]))}

\* C31: after any sequence of saves and deletes every membership key names a
\* group whose record exists and a playlist whose record exists, so that a
\* listing of the group returns one playlist for each of its keys
C31_MembershipEntriesSound ==
    Quiescent =>
        \A k \in AllMemberKeys :
            /\ Has(DP1_PLAYLIST_GROUPS, GroupIdKey(k[2]))
            /\ Has(DP1_PLAYLISTS, PlaylistIdKey(k[3]))
            /\ ListedOfGroup(k[2]) = MemberKeys(kv, k[2])

\* the playlists the group save of p read from the local store
LocallyResolved(p) ==
    {i \in 1..Len(res[p]) :
        /\ res[p][i].st = "ok"
        /\ i <= Len(call[p].arg.playlists)
        /\ isSelfHostedUrl(call[p].arg.playlists[i])}
\* the store applies a write of the call of p
WriteOf(p) == Len(pend'[p]) < Len(pend[p])
\* a write of the group save of p changes the stored record of a playlist
\* the save read from the local store, after every other call has returned
GroupSaveUndoesUpdate(p) ==
    /\ call[p].op = "savePlaylistGroup"
    /\ WriteOf(p)
    /\ \A q \in Procs \ {p} : pc[q] = "idle"
    /\ \E i \in LocallyResolved(p) :
          LET key == PlaylistIdKey(res[p][i].id)
          IN  /\ Has(DP1_PLAYLISTS, key)
              /\ Get(DP1_PLAYLISTS, key) # JSONStringify(res[p][i].playlist)
              /\ kv'[DP1_PLAYLISTS][key] = JSONStringify(res[p][i].playlist)

\* C32: a savePlaylistGroup that references a locally stored playlist never
\* undoes a concurrent update of it: when a savePlaylist of the same ID has
\* completed while the group save was in progress, no write of the group
\* save puts the record it read before in place of the updated one
C32_GroupSaveKeepsUpdate ==
    [][\A p \in Procs : ~GroupSaveUndoesUpdate(p)]_vars


\* the playlists of the group save of p that were fetched from an external URL
ExternallyResolved(p) ==
    {i \in 1..Len(res[p]) :
        /\ res[p][i].st = "ok"
        /\ i <= Len(call[p].arg.playlists)
        /\ ~isSelfHostedUrl(call[p].arg.playlists[i])}

\* a write of the group save of p replaces the value of a playlist record or
\* of a slug pointer the store held by content the save fetched
GroupSaveReplacesByFetched(p) ==
    /\ call[p].op = "savePlaylistGroup" /\ WriteOf(p)
    /\ \E i \in ExternallyResolved(p) :
          LET idKey == PlaylistIdKey(res[p][i].id)
              slugKey == PlaylistSlugKey(res[p][i].playlist.slug)
          IN  \/ /\ Has(DP1_PLAYLISTS, idKey)
                 /\ Get(DP1_PLAYLISTS, idKey) # JSONStringify(res[p][i].playlist)
                 /\ kv'[DP1_PLAYLISTS][idKey] = JSONStringify(res[p][i].playlist)
              \/ /\ Has(DP1_PLAYLISTS, slugKey)
                 /\ Get(DP1_PLAYLISTS, slugKey) # res[p][i].id
                 /\ kv'[DP1_PLAYLISTS][slugKey] = res[p][i].id

\* C33: a group save never replaces a playlist record or a slug pointer the
\* store already holds by content obtained from an external URL: the values
\* under the playlist:id:* and playlist:slug:* keys that existed before the
\* save are the same after it.
C33_GroupSaveKeepsLocalRecords == [][\A p \in Procs : ~GroupSaveReplacesByFetched(p)]_vars


\* handler p is answered by its existence check in this step
Checked(p) == posts[p].stage \in {"none", "done"} /\ posts'[p].stage \in {"save", "done"} /\ posts'[p].n > posts[p].n
\* the POST p checks carries the ID of a stored record: 409 and no write
ConflictAnswered(p) ==
    (Checked(p) /\ \E kind \in Kinds : \E id \in {playlistId1, playlistId2, groupId1} :
        /\ recordExists(kv, kind, id)
        /\ posts'[p].kind = kind
        /\ (IF posts'[p].stage = "done" THEN posts'[p].id ELSE posts'[p].validatedData.id) = id)
    => (posts'[p].stage = "done" /\ posts'[p].status = 409 /\ kv' = kv)
\* the save of the POST of p replaces a record the store holds
PostOverwrites(p) ==
    /\ posts[p].stage = "save" /\ posts'[p].stage = "saved" /\ posts'[p].saved
    /\ recordExists(kv, posts'[p].kind, posts'[p].id)
\* two POSTs of one ID were both answered 201
BothCreated ==
    \E p, q \in Procs :
        /\ p # q
        /\ posts[p].stage = "done" /\ posts[p].status = 201
        /\ posts[q].stage = "done" /\ posts[q].status = 201
        /\ posts[p].kind = posts[q].kind /\ posts[p].id = posts[q].id

\* C34: a create request never overwrites a record: a POST whose ID is
\* stored is answered 409 and writes nothing, no save of a POST replaces a
\* stored record, and of two POSTs of one new ID that overlap at most one is
\* answered 201.
C34_CreateNeverOverwrites ==
    [][(\A p \in Procs : ConflictAnswered(p) /\ ~PostOverwrites(p)) /\ ~BothCreated']_vars


\* the call of p ends in this step with operations it issued left unapplied
EndsUnapplied(p) == pc[p] = "commit" /\ pend[p] # <<>> /\ pc'[p] = "idle"
\* the call of p ends in this step without having returned
Stops(p) == pc[p] # "idle" /\ pc'[p] = "idle" /\ returned'[p] = "stopped"
\* a group save ended by a fault left the record of the group with a proper,
\* non-empty part of the membership index of the group
PartialIndex(p) ==
    /\ pc[p] = "idle" /\ returned[p] \in {"false", "stopped"}
    /\ Has(DP1_PLAYLIST_GROUPS, GroupIdKey(groupId1))
    /\ LET stored == JSONParse(Get(DP1_PLAYLIST_GROUPS, GroupIdKey(groupId1)))
       IN  /\ MemberKeys(kv, groupId1) # {}
           /\ Cardinality(MemberKeys(kv, groupId1)) < Len(stored.playlists)

\* C35: the writes of a group save are not atomic: when the process stops or
\* a store write fails after some operations were applied, the applied
\* writes remain (nothing is rolled back), and a call a failed write ends
\* returns false.
C35_NoRollback ==
    [][\A p \in Procs :
          /\ EndsUnapplied(p) =>
                /\ kv' = kv
                /\ returned'[p] \in {"false", "stopped"}
          /\ Stops(p) => kv' = kv]_vars
C35_Witness == \E p \in Procs : PartialIndex(p) /\ returned[p] = "false"


\* C36: VerifyDirectoryHashes reports Success only when every file the scan
\* found was hashed without error: a file whose hash could not be computed
\* is never left out of the verdict.
C36_SuccessMeansAllHashed ==
    (vret.returned /\ vret.Success) =>
        \A k \in 1..Len(vret.Results) :
            vret.Results[k].Error = "" /\ vret.Results[k].SHA256 # NoString


\* a hash as computeFileHash prints it: HashLen digits and letters a-f
IsLowerHexHash(h) ==
    /\ Len(h) = HashLen
    /\ \A i \in 1..Len(h) : h[i] \in Elems(HexLower)

\* C37: every entry ExtractHashesFromString returns is a hash of full length
\* in lower-case hexadecimal digits, an accepted 0x or sha256: prefix
\* removed, so that it compares equal to the same hash computed from a file.
C37_ExtractedAreBareHashes ==
    cpc # "idle" =>
        \A k \in 1..Len(ExtractHashesFromString(hashesInput)) :
            IsLowerHexHash(ExtractHashesFromString(hashesInput)[k])


\* an item validateItems lets through: a source that is a string and a
\* duration that is a number above zero
IsValidItem(item) == item.source /\ item.duration.kind = "number" /\ item.duration.n > 0
\* send with a response of which validateItems keeps nothing
FailedSend == \E items \in ItemLists : validateItems(items) = <<>> /\ load(items)

\* C38: in every state of the player the playlist is empty or the index is
\* within it, and every item the page has loaded has a source that is a
\* string and a positive duration; a send whose response holds no valid item
\* leaves the playlist and the index as they are.
C38_PlayerStateValid ==
    [][/\ player'.mounted =>
            /\ player'.playlist = <<>>
                    \/ (0 <= player'.index /\ player'.index < Len(player'.playlist))
            /\ player'.component = "Home" =>
                    \A k \in 1..Len(player'.playlist) : IsValidItem(player'.playlist[k])
       /\ FailedSend =>
            /\ player'.playlist = player.playlist
            /\ player'.index = player.index]_vars

=============================================================================
